---- MODULE Spec2Model ----
(***************************************************************************)
(* Pagination and export engine of the cosmoslide editor package, and the  *)
(* parts of the application around it.                                     *)
(*                                                                         *)
(*   SplitSpec  - the delimiter splitter, the per-page parse and the       *)
(*                document assembler (utils/markdownParser, printStyles)   *)
(*                applied by MarkdownPreview to a source text.             *)
(*   Spec       - the usePdfExport hook: exportPdf invocations running     *)
(*                against the preview iframe.                              *)
(*   EditorSpec - the hook as the editor page uses it, with the page size  *)
(*                changing and the preview navigating during an export.    *)
(*   PreviewSpec- the stylesheet and the scale script of the preview       *)
(*                document, over page sizes and viewport widths.           *)
(*   ControlsSpec - PageSizeControls: presets and number fields.           *)
(*   SettlingSpec - Spec when every await of an export settles.            *)
(*   InviteSpec - POST /invitations of the backend for one inviter.        *)
(*   LoginSpec  - verifyToken of the login page of the admin app.          *)
(*   UploadSpec - the editor page of the frontend: the upload dialog and   *)
(*                handleUpload around the hook.                            *)
(*   MarkdownEditorSpec - MarkdownEditor, its CodeMirror view and owner.   *)
(*                                                                         *)
(* A text is a sequence of characters.  A character is written as a short  *)
(* name: "LF" line feed, "CR" carriage return, "FF" form feed, "SP" space, *)
(* and the printable characters as themselves.                             *)
(***************************************************************************)
EXTENDS Integers, Sequences, FiniteSets, TLC

VARIABLES
    markdown,       \* MarkdownPreview prop: the source text
    lastEdit,       \* how the editor last changed the source text
    prev,           \* the source text before that change and its pages
    segments,       \* splitByPageDelimiters' local `pages` (before the filter)
    parsedPages,    \* ParsedPage[] of the last render
    paginatedHtml,  \* the page elements of the last render, in document order
    rendered,       \* TRUE when the last render used the current markdown
    pageSize,       \* the PageSize prop / options.pageSize
    filename,       \* options.filename ("" when not given)
    hasOnExport,    \* TRUE when the hook was given an onExport callback
    iframeBody,     \* iframeRef.current?.contentWindow?.document?.body is there
    crossOrigin,    \* the iframe shows a document of another origin
    srcdocPending,  \* the iframe has a srcdoc it has not loaded yet
    domPages,       \* the .page elements of the iframe document, in order
    isExporting,    \* hook state
    error,          \* hook state, "null" for null
    calls,          \* the exportPdf invocations: position and locals of each
    onExportLog,    \* the (blob, filename) pairs handed to onExport, in order
    docSize,        \* the PageSize the loaded iframe document was generated for
    innerWidth,     \* window.innerWidth of the iframe, in px
    resizePending,  \* the viewport changed and its resize event is not yet handled
    previewScale,   \* --preview-scale on the root element of the iframe document
    invitationQuota,\* users.invitationQuota of the inviter, as stored
    startQuota,     \* what invitationQuota was before the first request
    invitations,    \* the rows of the invitations table made by sendInvitation
    mails,          \* the invitation mails mailService has sent
    requests,       \* the POST /invitations requests: position and locals of each
    token,          \* localStorage 'token' of the admin app
    location,       \* the route the admin app shows
    isLoading,      \* Login state
    loginMessage,   \* Login state `message`
    logins,         \* the verifyToken invocations: position and locals of each
    showUploadDialog, \* EditorPage state
    isUploading,    \* EditorPage state
    uploadError,    \* EditorPage state `error`, "null" for null
    route,          \* the route the frontend shows
    uploads,        \* per exportPdf call: the handleUpload that made it, if any
    uploadLog,      \* the (file, title) pairs handed to uploadApi.uploadPresentation
    ownerText,      \* the owner's state that it passes to MarkdownEditor as value
    value,          \* the value prop of MarkdownEditor at its last render
    valueEffectPending, \* the effect on [value] of that render has not run yet
    doc,            \* view.state.doc.toString() of the CodeMirror view
    isExternalUpdate,   \* the ref of MarkdownEditor
    onChangeLog,    \* the texts handed to onChange, in order
    userEdits       \* how many document changes the user has made

splitVars == <<markdown, lastEdit, prev, segments, parsedPages, paginatedHtml, rendered>>

exportVars == <<filename, hasOnExport, iframeBody, crossOrigin, srcdocPending,
                domPages, isExporting, error, calls, onExportLog>>

previewVars == <<docSize, innerWidth, resizePending, previewScale>>

inviteVars == <<invitationQuota, startQuota, invitations, mails, requests>>

loginVars == <<token, location, isLoading, loginMessage, logins>>

\* The state of the application around the editor package.
uploadVars == <<showUploadDialog, isUploading, uploadError, route, uploads,
                uploadLog>>

editorVars == <<ownerText, value, valueEffectPending, doc, isExternalUpdate,
                onChangeLog, userEdits>>

appVars == <<inviteVars, loginVars, uploadVars, editorVars>>

\* The state of the editor package.
packageVars == <<splitVars, pageSize, exportVars, previewVars>>

vars == <<packageVars, appVars>>

\* What the handlers of one part of the application leave alone.
outsideInvite == <<packageVars, loginVars, uploadVars, editorVars>>
outsideLogin == <<packageVars, inviteVars, uploadVars, editorVars>>
outsideEditorPage == <<inviteVars, loginVars, editorVars>>
outsideMarkdownEditor == <<packageVars, inviteVars, loginVars, uploadVars>>

----------------------------------------------------------------------------
(* Bounds                                                                  *)

MaxPieces == 4
MaxDomPages == 3
MaxCalls == 2
MaxRequests == 3
MaxLogins == 2
MaxEdits == 2

----------------------------------------------------------------------------
(* Characters                                                              *)

LF == "LF"
CR == "CR"
FF == "FF"
SP == "SP"

\* ECMAScript LineTerminator (within the alphabet): what ^ and $ look at
\* under the m flag.
IsLineTerminator(c) == c \in {LF, CR}

\* ECMAScript WhiteSpace + LineTerminator (within the alphabet): what
\* String.prototype.trim strips.
IsWhiteSpace(c) == c \in {SP, LF, CR, FF}

\* The literal of the first alternative of PAGE_DELIMITER_REGEX.
PageToken == <<"-", "-", "-", "p", "a", "g", "e", "-", "-", "-">>

----------------------------------------------------------------------------
(* String helpers of the runtime                                           *)

\* markdown.replace(/\r\n/g, '\n'): one left-to-right pass, the replacement
\* text is not rescanned.
RECURSIVE ReplaceCrLf(_)
ReplaceCrLf(s) ==
    IF Len(s) = 0 THEN <<>>
    ELSE IF Len(s) >= 2 /\ s[1] = CR /\ s[2] = LF
         THEN <<LF>> \o ReplaceCrLf(SubSeq(s, 3, Len(s)))
         ELSE <<s[1]>> \o ReplaceCrLf(SubSeq(s, 2, Len(s)))

\* String.prototype.trim
RECURSIVE TrimStart(_)
TrimStart(s) ==
    IF Len(s) > 0 /\ IsWhiteSpace(s[1]) THEN TrimStart(Tail(s)) ELSE s

RECURSIVE TrimEnd(_)
TrimEnd(s) ==
    IF Len(s) > 0 /\ IsWhiteSpace(s[Len(s)])
    THEN TrimEnd(SubSeq(s, 1, Len(s) - 1)) ELSE s

Trim(s) == TrimEnd(TrimStart(s))

\* Mutant: the pattern without the m flag, ^ and $ only at the ends of input.
MatchDelimiterAt_NoMultiline(s, q) ==
    LET e == q + Len(PageToken)
    IN  IF /\ q = 1
           /\ e - 1 = Len(s)
           /\ SubSeq(s, q, e - 1) = PageToken
        THEN e
        ELSE IF s[q] = FF THEN q + 1
        ELSE 0

\* Mutant: the pattern without the $ anchor.
MatchDelimiterAt_NoEndAnchor(s, q) ==
    LET e == q + Len(PageToken)
    IN  IF /\ (q = 1 \/ IsLineTerminator(s[q - 1]))
           /\ e - 1 <= Len(s)
           /\ SubSeq(s, q, e - 1) = PageToken
        THEN e
        ELSE IF s[q] = FF THEN q + 1
        ELSE 0

\* One sticky match attempt of /(?:^---page---$|\f)/m at position q of s
\* (positions from 1): the position just after the match, or 0 for failure.
MatchDelimiterAt(s, q) ==
    LET e == q + Len(PageToken)
    IN  IF /\ (q = 1 \/ IsLineTerminator(s[q - 1]))
           /\ e - 1 <= Len(s)
           /\ SubSeq(s, q, e - 1) = PageToken
           /\ (e = Len(s) + 1 \/ IsLineTerminator(s[e]))
        THEN e
        ELSE IF s[q] = FF THEN q + 1
        ELSE 0

\* String.prototype.split with a RegExp separator without capture groups
\* (RegExp.prototype[@@split]): p is the start of the current segment, q the
\* position tried next, acc the segments so far.
RECURSIVE SplitLoop(_, _, _, _)
SplitLoop(s, p, q, acc) ==
    IF q > Len(s) THEN Append(acc, SubSeq(s, p, Len(s)))
    ELSE LET e == MatchDelimiterAt(s, q)
         IN  IF e = 0 \/ e = p
             THEN SplitLoop(s, p, q + 1, acc)
             ELSE SplitLoop(s, e, e, Append(acc, SubSeq(s, p, q - 1)))

\* normalized.split(PAGE_DELIMITER_REGEX); the pattern does not match the
\* empty string, so the empty string splits into one empty segment.
SplitByRegex(s) ==
    IF Len(s) = 0 THEN <<s>> ELSE SplitLoop(s, 1, 1, <<>>)

\* Mutant: the filter tests page.length instead of page.trim().length.
RECURSIVE FilterFrom_NoTrim(_, _)
FilterFrom_NoTrim(pages, k) ==
    IF k > Len(pages) THEN <<>>
    ELSE IF k = 1 \/ Len(pages[k]) > 0
         THEN <<pages[k]>> \o FilterFrom_NoTrim(pages, k + 1)
         ELSE FilterFrom_NoTrim(pages, k + 1)

\* Mutant: the filter without the index === 0 exemption.
RECURSIVE FilterFrom_NoFirst(_, _)
FilterFrom_NoFirst(pages, k) ==
    IF k > Len(pages) THEN <<>>
    ELSE IF Len(Trim(pages[k])) > 0
         THEN <<pages[k]>> \o FilterFrom_NoFirst(pages, k + 1)
         ELSE FilterFrom_NoFirst(pages, k + 1)

\* pages.filter((page, index) => index === 0 || page.trim().length > 0)
RECURSIVE FilterFrom(_, _)
FilterFrom(pages, k) ==
    IF k > Len(pages) THEN <<>>
    ELSE IF k = 1 \/ Len(Trim(pages[k])) > 0
         THEN <<pages[k]>> \o FilterFrom(pages, k + 1)
         ELSE FilterFrom(pages, k + 1)

FilterPages(pages) == FilterFrom(pages, 1)

----------------------------------------------------------------------------
(* utils/markdownParser                                                    *)

\* Mutant: the text is split as it comes, without the CRLF replacement.
NormalizeLineEndings_None(text) == text

NormalizeLineEndings(text) == ReplaceCrLf(text)

\* Mutant: every blank segment is dropped and nothing stands in for an empty
\* result.
splitByPageDelimiters_DropBlank(text) ==
    SelectSeq(SplitByRegex(NormalizeLineEndings(text)),
              LAMBDA page : Len(Trim(page)) > 0)

splitByPageDelimiters(text) ==
    LET normalized == NormalizeLineEndings(text)
        pages == SplitByRegex(normalized)
        filteredPages == FilterPages(pages)
    IN  IF Len(filteredPages) > 0 THEN filteredPages ELSE << <<>> >>

\* md.render is the markdown-it library: an opaque function of the page text.
markdownToHtml(text) == [rendered |-> text]

parseMarkdownToPages(text) ==
    LET pageContents == splitByPageDelimiters(text)
    IN  [k \in 1..Len(pageContents) |->
            [index |-> k - 1,
             markdown |-> pageContents[k],
             html |-> markdownToHtml(pageContents[k])]]

\* Mutant: the last page is looked for one position past the end.
PageClass_OffByOne(index, n) ==
    IF index = n THEN {"page", "last-page"} ELSE {"page"}

\* The class list of the <section> of the page at array position index
\* (from 0) among n pages.
PageClass(index, n) ==
    IF index = n - 1 THEN {"page", "last-page"} ELSE {"page"}

\* Mutant: data-page carries the zero-based index.
generatePaginatedHtml_ZeroBased(pages) ==
    [k \in 1..Len(pages) |->
        [wrapper |-> "page-wrapper",
         class |-> PageClass(k - 1, Len(pages)),
         dataPage |-> pages[k].index,
         html |-> pages[k].html]]

\* The markup is modelled as the sequence of elements it parses to: one
\* div.page-wrapper holding one section per page.
generatePaginatedHtml(pages) ==
    [k \in 1..Len(pages) |->
        [wrapper |-> "page-wrapper",
         class |-> PageClass(k - 1, Len(pages)),
         dataPage |-> pages[k].index + 1,
         html |-> pages[k].html]]

----------------------------------------------------------------------------
(* utils/printStyles                                                       *)

Mm(n) == [mm |-> n]

\* Mutant: the preview rule repeats the content dimensions of the base rule.
ScreenPageRule_ContentSize(size) ==
    [media |-> "screen", selector |-> {"page"},
     decls |-> [width |-> Mm(size.width - size.margin * 2),
                height |-> Mm(size.height - size.margin * 2),
                min_height |-> Mm(size.height - size.margin * 2),
                padding |-> Mm(size.margin),
                position |-> "absolute"]]

\* @media screen { .page { ... } }
ScreenPageRule(size) ==
    [media |-> "screen", selector |-> {"page"},
     decls |-> [width |-> Mm(size.width),
                height |-> Mm(size.height),
                min_height |-> Mm(size.height),
                padding |-> Mm(size.margin),
                position |-> "absolute"]]

\* The rules of the stylesheet that apply to the page elements, in source
\* order.  A rule is its media context, the classes its selector asks for
\* (none for *), and its declarations.
generatePrintStyles(size) ==
    LET width == size.width
        height == size.height
        margin == size.margin
        contentWidth == width - margin * 2
        contentHeight == height - margin * 2
    IN  << [media |-> "all", selector |-> {},
            decls |-> [box_sizing |-> "border-box"]],
           [media |-> "all", selector |-> {"page"},
            decls |-> [width |-> Mm(contentWidth),
                       min_height |-> Mm(contentHeight),
                       padding |-> Mm(margin),
                       page_break_after |-> "always",
                       break_after |-> "page"]],
           [media |-> "all", selector |-> {"page", "last-page"},
            decls |-> [page_break_after |-> "auto",
                       break_after |-> "auto"]],
           [media |-> "print", selector |-> {"page"},
            decls |-> [width |-> Mm(width),
                       height |-> Mm(height),
                       min_height |-> Mm(height),
                       max_height |-> Mm(height),
                       padding |-> Mm(margin),
                       page_break_after |-> "always",
                       break_after |-> "page"]],
           [media |-> "print", selector |-> {"page", "last-page"},
            decls |-> [page_break_after |-> "auto",
                       break_after |-> "auto"]],
           [media |-> "screen", selector |-> {"page-wrapper"},
            decls |-> [position |-> "relative"]],
           ScreenPageRule(size),
           [media |-> "print", selector |-> {"page-wrapper"},
            decls |-> [display |-> "contents"]] >>

\* The cascade of the rendering engine: among the rules of the medium that
\* match the element and declare the property, the most specific wins, and
\* among equally specific ones the last.
DeclaringRules(sheet, classes, medium, prop) ==
    {i \in 1..Len(sheet) :
        /\ sheet[i].media \in {"all", medium}
        /\ sheet[i].selector \subseteq classes
        /\ prop \in DOMAIN sheet[i].decls}

ComputedStyle(sheet, classes, medium, prop) ==
    LET rules == DeclaringRules(sheet, classes, medium, prop)
        winner == CHOOSE i \in rules :
                    \A j \in rules :
                        \/ Cardinality(sheet[j].selector)
                              < Cardinality(sheet[i].selector)
                        \/ /\ Cardinality(sheet[j].selector)
                                = Cardinality(sheet[i].selector)
                           /\ j <= i
    IN  IF rules = {} THEN "initial" ELSE sheet[winner].decls[prop]

Max(a, b) == IF a >= b THEN a ELSE b

\* A length property that no rule declares: auto, or none.
Undeclared == Mm(-1)

\* The used length of a box along one axis, in mm: the declared length,
\* brought down to max-* and then up to min-* where these are declared.  A
\* box without a declared length is as long as its min-* (it has no content
\* here).
UsedLength(length, minLength, maxLength) ==
    LET declared == IF length = Undeclared THEN 0 ELSE length.mm
        capped == IF maxLength # Undeclared /\ declared > maxLength.mm
                  THEN maxLength.mm ELSE declared
    IN  IF minLength # Undeclared /\ capped < minLength.mm
        THEN minLength.mm ELSE capped

\* The box the rendering engine lays out for an element with the given
\* classes: its outer (border) box and its content box, in mm.  Under
\* box-sizing: border-box the lengths are those of the outer box and the
\* padding is taken out of them; otherwise they are those of the content
\* box and the padding is added.  The page elements have no border.
LayoutBox(sheet, classes, medium) ==
    LET length(prop) ==
            IF DeclaringRules(sheet, classes, medium, prop) = {} THEN Undeclared
            ELSE ComputedStyle(sheet, classes, medium, prop)
        padding == IF length("padding") = Undeclared THEN 0 ELSE length("padding").mm
        w == UsedLength(length("width"), Undeclared, Undeclared)
        h == UsedLength(length("height"), length("min_height"), length("max_height"))
    IN  IF ComputedStyle(sheet, classes, medium, "box_sizing") = "border-box"
        THEN [outerWidth |-> Max(w, padding * 2),
              outerHeight |-> Max(h, padding * 2),
              contentWidth |-> Max(w - padding * 2, 0),
              contentHeight |-> Max(h - padding * 2, 0)]
        ELSE [outerWidth |-> w + padding * 2,
              outerHeight |-> h + padding * 2,
              contentWidth |-> w,
              contentHeight |-> h]

\* const viewportWidth = window.innerWidth - 40; // padding
PADDING == 40

\* const MM_TO_PX = 3.7795275591, written as 3.7795 + 0.0000275591 so that
\* every product stays a machine integer: MM_TO_PX * 10^10 is
\* MM_TO_PX_HIGH * 10^6 + MM_TO_PX_LOW.
MM_TO_PX_HIGH == 37795
MM_TO_PX_LOW == 275591

\* viewportWidth / pageWidthPx < 1 for a page of widthMm > 0, exactly:
\* viewportWidth * 10^10 < widthMm * MM_TO_PX * 10^10, compared in units of
\* 10^6 with the remainder deciding a tie.
RatioBelowOne(viewportWidth, widthMm) ==
    LET low == widthMm * MM_TO_PX_LOW
        high == widthMm * MM_TO_PX_HIGH + low \div 1000000
    IN  \/ viewportWidth * 10000 < high
        \/ viewportWidth * 10000 = high /\ low % 1000000 > 0

\* A number the script computes: 1, or the quotient
\* viewportWidth / (widthMm * MM_TO_PX), kept as its two operands.
One == [isOne |-> TRUE, viewportWidth |-> 0, widthMm |-> 0]
Quotient(viewportWidth, widthMm) ==
    [isOne |-> FALSE, viewportWidth |-> viewportWidth, widthMm |-> widthMm]

\* Mutant: the scale is not capped at 1.
updateScale_NoCap(width, PAGE_WIDTH_MM) ==
    Quotient(width - PADDING, PAGE_WIDTH_MM)

\* updateScale() of the script of generateIframeDocument: the value it
\* writes to --preview-scale when window.innerWidth is width,
\* Math.min(viewportWidth / pageWidthPx, 1).
updateScale(width, PAGE_WIDTH_MM) ==
    LET viewportWidth == width - PADDING
    IN  IF RatioBelowOne(viewportWidth, PAGE_WIDTH_MM)
        THEN Quotient(viewportWidth, PAGE_WIDTH_MM)
        ELSE One

\* No document, no root element: the property is not set.
NoScale == [isOne |-> FALSE, viewportWidth |-> 0, widthMm |-> 0]

----------------------------------------------------------------------------
(* Source texts                                                            *)

Pieces == {<<LF>>, <<CR>>, <<FF>>, <<SP>>, <<"A">>, <<"B">>, PageToken}

RECURSIVE Flatten(_)
Flatten(ps) == IF Len(ps) = 0 THEN <<>> ELSE Head(ps) \o Flatten(Tail(ps))

\* Every text made of at most MaxPieces pieces.
PieceTexts ==
    UNION {{Flatten(f) : f \in [1..n -> Pieces]} : n \in 0..MaxPieces}

\* The documents named by the format contract and its edge cases.
ExampleTexts ==
    { <<"A", LF>> \o PageToken \o <<LF, "B">>,
      <<"A", LF>> \o PageToken \o <<LF>>,
      <<"A", FF, "B">>,
      <<"A", CR, LF>> \o PageToken \o <<CR, LF, "B">>,
      <<"-">> \o PageToken,
      PageToken \o <<"-">>,
      <<"A", LF, SP>> \o PageToken \o <<LF, "B">>,
      <<"A", LF>> \o PageToken \o <<SP, LF, "B">> }

Texts == PieceTexts \cup ExampleTexts

\* The positions of the text at which PageToken is written.
TokenAt(s, i) ==
    /\ i \in 1..Len(s)
    /\ i + Len(PageToken) - 1 <= Len(s)
    /\ SubSeq(s, i, i + Len(PageToken) - 1) = PageToken

Splice(s, i, n, r) == SubSeq(s, 1, i - 1) \o r \o SubSeq(s, i + n, Len(s))

HasCrLf(s) == \E i \in 1..(Len(s) - 1) : s[i] = CR /\ s[i + 1] = LF

----------------------------------------------------------------------------
(* Page sizes, the preview iframe and the locals of exportPdf              *)

\* PAGE_PRESETS A4 and Slide (16:9), the latter also DEFAULT_PAGE_SIZE.
PageSizes ==
    { [width |-> 210, height |-> 297, margin |-> 20],
      [width |-> 254, height |-> 143, margin |-> 10] }

\* The sizes the preview is checked for: the six PAGE_PRESETS and the
\* sizes of a grid that reaches the ends of the ranges of the three number
\* fields, as far as they are valid (the margins leave a content box).
PresetSizes ==
    { [width |-> 210, height |-> 297, margin |-> 20],
      [width |-> 148, height |-> 210, margin |-> 15],
      [width |-> 216, height |-> 279, margin |-> 20],
      [width |-> 254, height |-> 143, margin |-> 10],
      [width |-> 254, height |-> 190, margin |-> 10],
      [width |-> 180, height |-> 250, margin |-> 15] }

GridSizes ==
    {s \in [width : {50, 143, 500}, height : {50, 297, 500},
            margin : {0, 10, 24, 50}] :
        /\ s.margin * 2 < s.width
        /\ s.margin * 2 < s.height}

PreviewPageSizes == PresetSizes \cup GridSizes

\* The widths the iframe is given, in px: nothing, the padding alone, widths
\* between those of the presets at 96 DPI, and one wider than every page.
InnerWidths == {0, 40, 833, 1000, 2000}

Calls == 1..MaxCalls

\* The k-th section.page of the iframe document, laid out for the PageSize
\* the document was generated with.
PageElement(k) == [tag |-> "section", ord |-> k, size |-> pageSize]

NoSize == [width |-> 0, height |-> 0, margin |-> 0]

\* Promise<Blob | null>: null, or the blob with the pages serialized in it.
Null == [isBlob |-> FALSE, pages |-> <<>>]

\* An invocation: pc is where it stands ("done" when its promise is
\* fulfilled, "rejected" when its promise is rejected), err is what it threw.
IdleCall ==
    [pc |-> "idle", size |-> NoSize, pages |-> <<>>, i |-> 0,
     pdf |-> [orientation |-> "portrait", pages |-> <<>>], result |-> Null,
     err |-> [ok |-> TRUE, isError |-> FALSE, message |-> ""]]

\* The hook right after usePdfExport was first called, nothing exported yet.
ExportAtRest ==
    /\ filename = ""
    /\ hasOnExport = FALSE
    /\ iframeBody = FALSE
    /\ crossOrigin = FALSE
    /\ srcdocPending = FALSE
    /\ domPages = <<>>
    /\ isExporting = FALSE
    /\ error = "null"
    /\ calls = [c \in Calls |-> IdleCall]
    /\ onExportLog = <<>>

\* No document in the iframe yet.
PreviewAtRest ==
    /\ docSize = NoSize
    /\ resizePending = FALSE
    /\ previewScale = NoScale

----------------------------------------------------------------------------
(* The editor page of the frontend: state around the hook                  *)

\* No handleUpload has made the call.
NoUpload == [pc |-> "none", file |-> <<>>, finalTitle |-> <<>>]

\* EditorPage as first rendered.
UploadAtRest ==
    /\ showUploadDialog = FALSE
    /\ isUploading = FALSE
    /\ uploadError = "null"
    /\ route = "/presentations/new"
    /\ uploads = [c \in Calls |-> NoUpload]
    /\ uploadLog = <<>>

----------------------------------------------------------------------------
(* MarkdownEditor: the CodeMirror view and its owner                       *)

\* doc.toString() of a document made of the text: CodeMirror keeps lines,
\* splitting at CR LF, CR and LF, and joins them with LF.
RECURSIVE DocOf(_)
DocOf(text) ==
    IF text = <<>> THEN <<>>
    ELSE IF Len(text) >= 2 /\ text[1] = CR /\ text[2] = LF
    THEN <<LF>> \o DocOf(SubSeq(text, 3, Len(text)))
    ELSE IF text[1] = CR
    THEN <<LF>> \o DocOf(Tail(text))
    ELSE <<text[1]>> \o DocOf(Tail(text))

\* Mutant: the handler reports every change of the document.
handleChange_Always(log, flag, newValue) == Append(log, newValue)

\* handleChange(newValue): onChange(newValue) unless isExternalUpdate.current
\* is set.
handleChange(log, flag, newValue) ==
    IF ~flag THEN Append(log, newValue) ELSE log

\* EditorView.updateListener: a transaction that changed the document is
\* reported with update.state.doc.toString().
updateListener(log, flag, docChanged, newValue) ==
    IF docChanged THEN handleChange(log, flag, newValue) ELSE log

\* No MarkdownEditor is mounted.
MarkdownEditorAtRest ==
    /\ ownerText = <<>>
    /\ value = <<>>
    /\ valueEffectPending = FALSE
    /\ doc = <<>>
    /\ isExternalUpdate = FALSE
    /\ onChangeLog = <<>>
    /\ userEdits = 0

\* The texts an owner starts with or loads, with each kind of line break.
OwnerTexts ==
    { <<>>, <<"a">>, <<"a", LF, "b">>, <<"a", CR, LF, "b">>, <<"a", CR>> }

\* What the user types.
Keys == {"a", LF}

\* The owner sets its state from outside the editor (a template is loaded,
\* the text is reset).
LoadText(text) ==
    /\ text # ownerText
    /\ ownerText' = text
    /\ UNCHANGED <<outsideMarkdownEditor, value, valueEffectPending, doc,
                   isExternalUpdate, onChangeLog, userEdits>>

\* The owner renders with its current state as value; React runs the
\* effects of the render before, so none is pending.
RenderOwner ==
    /\ ownerText # value
    /\ ~valueEffectPending
    /\ value' = ownerText
    /\ valueEffectPending' = TRUE
    /\ UNCHANGED <<outsideMarkdownEditor, ownerText, doc, isExternalUpdate,
                   onChangeLog, userEdits>>

\* useEffect(..., [value]): when the document differs from value it is
\* replaced as a whole, between isExternalUpdate.current = true and = false;
\* the update listener runs inside view.dispatch.  onChange is the owner's
\* setter.
ValueEffect ==
    /\ valueEffectPending
    /\ valueEffectPending' = FALSE
    /\ IF doc # value
       THEN LET log == updateListener(onChangeLog, TRUE, TRUE, DocOf(value))
            IN  /\ doc' = DocOf(value)
                /\ onChangeLog' = log
                /\ ownerText' = IF log # onChangeLog THEN log[Len(log)] ELSE ownerText
                /\ isExternalUpdate' = FALSE
       ELSE UNCHANGED <<doc, onChangeLog, ownerText, isExternalUpdate>>
    /\ UNCHANGED <<outsideMarkdownEditor, value, userEdits>>

\* A transaction of the user: the edited document goes through the update
\* listener, and onChange, the owner's setter, takes the text it is given.
UserTransaction(edited) ==
    /\ userEdits < MaxEdits
    /\ edited # doc
    /\ LET log == updateListener(onChangeLog, isExternalUpdate, TRUE, edited)
       IN  /\ doc' = edited
           /\ onChangeLog' = log
           /\ ownerText' = IF log # onChangeLog THEN log[Len(log)] ELSE ownerText
    /\ userEdits' = userEdits + 1
    /\ UNCHANGED <<outsideMarkdownEditor, value, valueEffectPending,
                   isExternalUpdate>>

\* The user types a character at the end of the document.
TypeKey(key) ==
    /\ key \in Keys
    /\ UserTransaction(Append(doc, key))

\* The user deletes the last character of the document.
Backspace ==
    /\ doc # <<>>
    /\ UserTransaction(SubSeq(doc, 1, Len(doc) - 1))

----------------------------------------------------------------------------
(* The invitation subsystem of the backend: POST /invitations              *)

Requests == 1..MaxRequests

\* A string of a request body, by what the handlers look at: whether the
\* field is there and how long it is.
Undefined == [defined |-> FALSE, length |-> 0]
Str(length) == [defined |-> TRUE, length |-> length]

\* !s and the s of `s && ...`: undefined and '' are falsy.
Falsy(s) == ~s.defined \/ s.length = 0

\* message && message.length > 500
MessageTooLong(message) == ~Falsy(message) /\ message.length > 500

\* Mutant: a quota of 0 still lets one invitation through.
QuotaExhausted_BelowZero(inviter) == inviter.invitationQuota < 0

\* inviter.invitationQuota <= 0, on the user object of the request.
QuotaExhausted(inviter) == inviter.invitationQuota <= 0

\* The bodies the requests are made with.
Emails == {Undefined, Str(0), Str(13)}
Messages == {Undefined, Str(500), Str(501)}

\* The quotas an inviter starts with: none, one, and fewer than requests.
StartQuotas == {0, 1, 2}

\* A request: pc is where it stands ("done" answered 201, "failed" answered
\* with an error), user is req.user as JwtAuthGuard attached it.
IdleRequest ==
    [pc |-> "idle", user |-> [invitationQuota |-> 0], email |-> Undefined,
     message |-> Undefined, error |-> ""]

\* An empty invitations table and a quota as the migration leaves it.
InviteAtRest ==
    /\ invitationQuota = 0
    /\ startQuota = 0
    /\ invitations = {}
    /\ mails = {}
    /\ requests = [r \in Requests |-> IdleRequest]

----------------------------------------------------------------------------
(* The login page of the admin app: a magic link is verified               *)

Logins == 1..MaxLogins

\* localStorage.getItem('token'): null, or the string a call has stored.
NoToken == [by |-> 0, value |-> "null"]

\* What authAPI.verifyMagicLink(token) settles with: a response whose data
\* has an access_token or lacks it (localStorage.setItem then stores the
\* string "undefined"), or an error with or without a message of the
\* server.
VerifyOutcomes ==
    { [ok |-> TRUE, access_token |-> "jwt", message |-> ""],
      [ok |-> TRUE, access_token |-> "undefined", message |-> ""],
      [ok |-> FALSE, access_token |-> "undefined", message |-> "Invalid token"],
      [ok |-> FALSE, access_token |-> "undefined", message |-> ""] }

\* What authAPI.getMe() settles with: a response whose data is a user with
\* isAdmin true, false or missing, a response without data, or an error.
GetMeOutcomes ==
    { [ok |-> TRUE, hasData |-> TRUE, isAdmin |-> "true", message |-> ""],
      [ok |-> TRUE, hasData |-> TRUE, isAdmin |-> "false", message |-> ""],
      [ok |-> TRUE, hasData |-> TRUE, isAdmin |-> "undefined", message |-> ""],
      [ok |-> TRUE, hasData |-> FALSE, isAdmin |-> "undefined", message |-> ""],
      [ok |-> FALSE, hasData |-> FALSE, isAdmin |-> "undefined", message |-> "Unauthorized"],
      [ok |-> FALSE, hasData |-> FALSE, isAdmin |-> "undefined", message |-> ""] }

\* Mutant: only a user marked as not being an admin is turned away.
AccessDenied_OnlyFalse(user) == user.isAdmin = "false"

\* !user.isAdmin
AccessDenied(user) == user.isAdmin # "true"

\* error.response?.data?.message || 'Invalid or expired magic link'
FailureMessage(message) ==
    IF message = "" THEN "Invalid or expired magic link" ELSE message

\* A verifyToken invocation: pc is where it stands, stored tells whether it
\* has called localStorage.setItem, me is what getMe gave it, navigated
\* tells whether it has called navigate('/users').
IdleLogin ==
    [pc |-> "idle", stored |-> FALSE, navigated |-> FALSE,
     me |-> [ok |-> FALSE, hasData |-> FALSE, isAdmin |-> "undefined",
             message |-> "not asked"]]

\* The login page before a magic link is opened.
LoginAtRest ==
    /\ token = NoToken
    /\ location = "/login"
    /\ isLoading = FALSE
    /\ loginMessage = ""
    /\ logins = [c \in Logins |-> IdleLogin]

\* The effect finds a token in the search parameters: verifyToken(token)
\* up to its first await.
verifyToken(c) ==
    /\ logins[c].pc = "idle"
    /\ \A b \in Logins : b < c => logins[b].pc # "idle"
    /\ isLoading' = TRUE
    /\ logins' = [logins EXCEPT ![c].pc = "verifyMagicLink"]
    /\ UNCHANGED <<outsideLogin, token, location, loginMessage>>

\* catch (error): the token is removed, whoever stored it.
LoginCatch(c, message) ==
    /\ token' = NoToken
    /\ loginMessage' = FailureMessage(message)
    /\ isLoading' = FALSE
    /\ UNCHANGED location

\* await authAPI.verifyMagicLink(token) settles; on success the access
\* token is stored and getMe is started.
VerifySettles(c) ==
    /\ logins[c].pc = "verifyMagicLink"
    /\ \E outcome \in VerifyOutcomes :
          IF outcome.ok
          THEN /\ token' = [by |-> c, value |-> outcome.access_token]
               /\ logins' = [logins EXCEPT ![c].pc = "getMe", ![c].stored = TRUE]
               /\ UNCHANGED <<location, isLoading, loginMessage>>
          ELSE /\ LoginCatch(c, outcome.message)
               /\ logins' = [logins EXCEPT ![c].pc = "done"]
    /\ UNCHANGED outsideLogin

\* await authAPI.getMe() settles: an error, or a response without data
\* (reading user.isAdmin throws), is caught; a user who is no admin is
\* turned away; an admin is sent to /users.
GetMeSettles(c) ==
    /\ logins[c].pc = "getMe"
    /\ \E outcome \in GetMeOutcomes :
          /\ logins' = [logins EXCEPT
                ![c].pc = "done", ![c].me = outcome,
                ![c].navigated = outcome.ok /\ outcome.hasData /\ ~AccessDenied(outcome)]
          /\ IF ~outcome.ok
             THEN LoginCatch(c, outcome.message)
             ELSE IF ~outcome.hasData
             THEN LoginCatch(c, "")
             ELSE IF AccessDenied(outcome)
             THEN /\ token' = NoToken
                  /\ loginMessage' = "Access denied. Admin privileges required."
                  /\ isLoading' = FALSE
                  /\ UNCHANGED location
             ELSE /\ location' = "/users"
                  /\ UNCHANGED <<token, isLoading, loginMessage>>
    /\ UNCHANGED outsideLogin

AppAtRest ==
    /\ InviteAtRest
    /\ LoginAtRest
    /\ UploadAtRest
    /\ MarkdownEditorAtRest

\* The request is answered with an exception.
Reject(r, user, email, message, exception) ==
    requests' = [requests EXCEPT ![r] =
                    [pc |-> "failed", user |-> user, email |-> email,
                     message |-> message, error |-> exception]]

\* InvitationController.sendInvitation up to its first await: the guard has
\* attached the inviter as stored at that moment, the body is validated,
\* InvitationService.sendInvitation checks the quota of that user object
\* and createInvitation hands the new row to invitationRepository.save.
PostInvitations(r, email, message) ==
    /\ requests[r].pc = "idle"
    /\ \A q \in Requests : q < r => requests[q].pc # "idle"
    /\ LET user == [invitationQuota |-> invitationQuota]
       IN  IF Falsy(email)
           THEN Reject(r, user, email, message, "Email is required")
           ELSE IF MessageTooLong(message)
           THEN Reject(r, user, email, message,
                       "Message must be 500 characters or less")
           ELSE IF QuotaExhausted(user)
           THEN Reject(r, user, email, message, "No invitation quota remaining")
           ELSE requests' = [requests EXCEPT ![r] =
                                [pc |-> "save", user |-> user, email |-> email,
                                 message |-> message, error |-> ""]]
    /\ UNCHANGED <<outsideInvite, invitationQuota, startQuota, invitations, mails>>

\* What an awaited query or mail delivery ends with.
Settled == {"ok", "failed"}

\* The rows invitationRepository.save(invitation) inserts.
SavedRows(r, outcome) ==
    IF outcome = "ok"
    THEN {[by |-> r, email |-> requests[r].email, maxUses |-> 1,
           note |-> requests[r].message]}
    ELSE {}

\* await this.invitationRepository.save(invitation) settles; on success
\* userRepository.decrement is started.
SaveSettles(r) ==
    /\ requests[r].pc = "save"
    /\ \E outcome \in Settled :
          /\ invitations' = invitations \cup SavedRows(r, outcome)
          /\ requests' = [requests EXCEPT
                ![r].pc = IF outcome = "ok" THEN "decrement" ELSE "failed",
                ![r].error = IF outcome = "ok" THEN "" ELSE "Internal server error"]
    /\ UNCHANGED <<outsideInvite, invitationQuota, startQuota, mails>>

\* await this.userRepository.decrement({id}, 'invitationQuota', 1) settles:
\* UPDATE users SET invitationQuota = invitationQuota - 1 WHERE id = ...,
\* on a column that is an integer NOT NULL without a check constraint.  On
\* success the service returns and the controller starts the mail.
DecrementSettles(r) ==
    /\ requests[r].pc = "decrement"
    /\ \E outcome \in Settled :
          IF outcome = "ok"
          THEN /\ invitationQuota' = invitationQuota - 1
               /\ requests' = [requests EXCEPT ![r].pc = "mail"]
          ELSE /\ requests' = [requests EXCEPT ![r].pc = "failed",
                                               ![r].error = "Internal server error"]
               /\ UNCHANGED invitationQuota
    /\ UNCHANGED <<outsideInvite, startQuota, invitations, mails>>

\* await this.mailService.sendInvitation(...) settles.
MailSettles(r) ==
    /\ requests[r].pc = "mail"
    /\ \E outcome \in Settled :
          IF outcome = "ok"
          THEN /\ mails' = mails \cup {[by |-> r, to |-> requests[r].email]}
               /\ requests' = [requests EXCEPT ![r].pc = "done"]
          ELSE /\ requests' = [requests EXCEPT ![r].pc = "failed",
                                               ![r].error = "Internal server error"]
               /\ UNCHANGED mails
    /\ UNCHANGED <<outsideInvite, invitationQuota, startQuota, invitations>>

----------------------------------------------------------------------------
(* MarkdownPreview: the text is parsed and assembled on every change       *)

NoEdit == [kind |-> "none", at |-> 0]

SplitInit ==
    /\ markdown \in Texts
    /\ lastEdit = NoEdit
    /\ prev = [markdown |-> <<>>, pages |-> <<>>]
    /\ segments = <<>>
    /\ parsedPages = <<>>
    /\ paginatedHtml = <<>>
    /\ rendered = FALSE
    /\ pageSize \in PageSizes
    /\ ExportAtRest
    /\ innerWidth = 1000
    /\ PreviewAtRest
    /\ AppAtRest

\* useMemo(() => generateIframeDocument(generatePaginatedHtml(
\*   parseMarkdownToPages(markdown)), pageSize), [markdown, pageSize])
Render ==
    /\ ~rendered
    /\ segments' = SplitByRegex(NormalizeLineEndings(markdown))
    /\ parsedPages' = parseMarkdownToPages(markdown)
    /\ paginatedHtml' = generatePaginatedHtml(parsedPages')
    /\ rendered' = TRUE
    /\ UNCHANGED <<appVars, markdown, lastEdit, prev, pageSize, exportVars, previewVars>>

\* onChange={setMarkdown}: the editor hands over a new text.  The edits
\* drawn here are the ones that relate two documents of the format contract.
SetMarkdown(text, kind, at) ==
    /\ rendered
    /\ lastEdit = NoEdit
    /\ markdown' = text
    /\ lastEdit' = [kind |-> kind, at |-> at]
    /\ prev' = [markdown |-> markdown,
                 pages |-> [k \in 1..Len(parsedPages) |-> parsedPages[k].markdown]]
    /\ rendered' = FALSE
    /\ UNCHANGED <<appVars, segments, parsedPages, paginatedHtml, pageSize, exportVars, previewVars>>

\* A form feed is rewritten as a `---page---` line.
ReplaceFormFeedByLine ==
    \E i \in 1..Len(markdown) :
        /\ markdown[i] = FF
        /\ SetMarkdown(Splice(markdown, i, 1, <<LF>> \o PageToken \o <<LF>>),
                       "ffToLine", i)

\* The token of a `---page---` line is rewritten as a form feed.
ReplaceLineByFormFeed ==
    \E i \in 1..Len(markdown) :
        /\ TokenAt(markdown, i)
        /\ IF i = 1 THEN TRUE ELSE IsLineTerminator(markdown[i - 1])
        /\ IF i + Len(PageToken) > Len(markdown) THEN TRUE
           ELSE IsLineTerminator(markdown[i + Len(PageToken)])
        /\ SetMarkdown(Splice(markdown, i, Len(PageToken), <<FF>>),
                       "lineToFf", i)

\* The text is saved with LF line endings: every CRLF becomes LF.
ConvertCrLfToLf ==
    /\ HasCrLf(markdown)
    /\ SetMarkdown(ReplaceCrLf(markdown), "crlfToLf", 0)

SplitNext ==
    \/ Render
    \/ ReplaceFormFeedByLine
    \/ ReplaceLineByFormFeed
    \/ ConvertCrLfToLf

SplitSpec == SplitInit /\ [][SplitNext]_vars

----------------------------------------------------------------------------
(* jsPDF and html2canvas, as usePdfExport uses them                        *)

\* jsPDF keeps the orientation it was constructed with and lays every page
\* out in it: a format whose sides disagree with the orientation is turned.
PdfPageFormat(orientation, w, h) ==
    IF (orientation = "landscape" /\ h > w) \/ (orientation = "portrait" /\ w > h)
    THEN <<h, w>> ELSE <<w, h>>

\* new jsPDF({orientation, unit: 'mm', format: [w, h]}): one empty page.
NewPdf(orientation, w, h) ==
    [orientation |-> orientation,
     pages |-> << [format |-> PdfPageFormat(orientation, w, h), images |-> <<>>] >>]

\* pdf.addPage([w, h])
AddPage(pdf, w, h) ==
    [pdf EXCEPT !.pages =
        Append(@, [format |-> PdfPageFormat(pdf.orientation, w, h), images |-> <<>>])]

\* pdf.addImage(data, 'PNG', x, y, w, h): onto the current, the last, page.
AddImage(pdf, data, x, y, w, h) ==
    [pdf EXCEPT !.pages[Len(pdf.pages)].images =
        Append(@, [data |-> data, x |-> x, y |-> y, w |-> w, h |-> h])]

\* html2canvas(page, {scale: 2, backgroundColor: '#ffffff'}) followed by
\* canvas.toDataURL('image/png')
CapturedImage(element) ==
    [of |-> element, scale |-> 2, backgroundColor |-> "#ffffff", type |-> "image/png"]

\* What a settled await delivers: the value, or what was thrown.
Resolved == [ok |-> TRUE, isError |-> FALSE, message |-> ""]
Thrown(message) == [ok |-> FALSE, isError |-> TRUE, message |-> message]
ThrownNonError == [ok |-> FALSE, isError |-> FALSE, message |-> ""]

Outcomes(message) == {Resolved, Thrown(message), ThrownNonError}

----------------------------------------------------------------------------
(* usePdfExport                                                            *)

\* Mutant: a page is appended before every image, the first included.
NeedsNewPage_Always(i) == i >= 0

\* if (i > 0) pdf.addPage([width, height])
NeedsNewPage(i) == i > 0

\* orientation: width > height ? 'landscape' : 'portrait'
Orientation(width, height) == IF width > height THEN "landscape" ELSE "portrait"

\* Mutant: no default for a missing filename.
ExportFilename_NoDefault == <<filename, ".pdf">>

\* `${options.filename || 'document'}.pdf`
ExportFilename == <<IF filename = "" THEN "document" ELSE filename, ".pdf">>

\* Mutant: the catch block hands back what was built before the throw.
Catch_PartialDocument(c, thrown) ==
    /\ error' = IF thrown.isError THEN thrown.message ELSE "Failed to export PDF"
    /\ isExporting' = FALSE
    /\ calls' = [calls EXCEPT ![c].pc = "done", ![c].err = thrown,
                               ![c].result = [isBlob |-> TRUE,
                                              pages |-> calls[c].pdf.pages]]

\* Mutant: the catch block leaves the busy flag set.
Catch_KeepExporting(c, thrown) ==
    /\ error' = IF thrown.isError THEN thrown.message ELSE "Failed to export PDF"
    /\ calls' = [calls EXCEPT ![c].pc = "done", ![c].err = thrown,
                               ![c].result = Null]
    /\ UNCHANGED isExporting

\* The catch block: the error becomes state, the call resolves to null.
Catch(c, thrown) ==
    /\ error' = IF thrown.isError THEN thrown.message ELSE "Failed to export PDF"
    /\ isExporting' = FALSE
    /\ calls' = [calls EXCEPT ![c].pc = "done", ![c].err = thrown,
                               ![c].result = Null]

\* Mutant: the blob is returned while the busy flag stays as it is.
ReturnBlob_KeepExporting(c, pdf) ==
    /\ calls' = [calls EXCEPT ![c].pc = "done", ![c].pdf = pdf,
                               ![c].result = [isBlob |-> TRUE, pages |-> pdf.pages]]
    /\ UNCHANGED <<isExporting, error>>

\* setIsExporting(false); return blob
ReturnBlob(c, pdf) ==
    /\ isExporting' = FALSE
    /\ calls' = [calls EXCEPT ![c].pc = "done", ![c].pdf = pdf,
                               ![c].result = [isBlob |-> TRUE, pages |-> pdf.pages]]
    /\ UNCHANGED error

\* Reading contentWindow.document of a frame that shows a document of
\* another origin throws a SecurityError, which is an Error.
SecurityError == Thrown("Blocked a frame from accessing a cross-origin frame")

\* Mutant: the surface check and the page check report the same message.
SurfaceMessage_NoPages == "No pages found in document"

\* setError('Cannot access iframe content')
SurfaceMessage == "Cannot access iframe content"

\* Mutant: a string is thrown, not an Error.
NoPagesError_String ==
    [ok |-> FALSE, isError |-> FALSE, message |-> "No pages found in document"]

\* throw new Error('No pages found in document')
NoPagesError == Thrown("No pages found in document")

\* exportPdf() up to its first await: the surface check, the two state
\* updates and the start of the dynamic imports.  The surface check stands
\* before the try block: what it throws rejects the promise.  Calls are
\* numbered in the order in which they are made.
exportPdf(c) ==
    /\ calls[c].pc = "idle"
    /\ \A b \in Calls : b < c => calls[b].pc # "idle"
    /\ IF ~iframeBody
       THEN /\ error' = SurfaceMessage
            /\ calls' = [calls EXCEPT ![c].pc = "done", ![c].result = Null]
            /\ UNCHANGED isExporting
       ELSE IF crossOrigin
       THEN /\ calls' = [calls EXCEPT ![c].pc = "rejected", ![c].err = SecurityError]
            /\ UNCHANGED <<isExporting, error>>
       ELSE /\ isExporting' = TRUE
            /\ error' = "null"
            /\ calls' = [calls EXCEPT ![c].pc = "import", ![c].size = pageSize]
    /\ UNCHANGED <<splitVars, pageSize, filename, hasOnExport, iframeBody,
                   crossOrigin, srcdocPending, domPages, onExportLog, previewVars>>

\* exportPdf() called on its own: by handleDownload, or by any owner of the
\* hook.
Invoke(c) ==
    /\ exportPdf(c)
    /\ UNCHANGED appVars

\* The imports settle; on success the page elements are looked up, the
\* document is created and the capture of the first page is started.
ImportSettles(c) ==
    /\ calls[c].pc = "import"
    /\ \E outcome \in Outcomes("Failed to fetch dynamically imported module") :
          IF ~outcome.ok THEN Catch(c, outcome)
          ELSE IF ~iframeBody
               THEN Catch(c, Thrown("Cannot read properties of null"))
          ELSE IF crossOrigin
               THEN Catch(c, SecurityError)
          ELSE IF Len(domPages) = 0
               THEN Catch(c, NoPagesError)
          ELSE /\ calls' = [calls EXCEPT
                      ![c].pc = "capture",
                      ![c].pages = domPages,
                      ![c].i = 0,
                      ![c].pdf = NewPdf(Orientation(calls[c].size.width,
                                                    calls[c].size.height),
                                        calls[c].size.width, calls[c].size.height)]
               /\ UNCHANGED <<isExporting, error>>
    /\ UNCHANGED <<appVars, splitVars, pageSize, filename, hasOnExport, iframeBody,
                   crossOrigin, srcdocPending, domPages, onExportLog, previewVars>>

\* Mutant: every iteration captures the last page element.
PageToCapture_Last(call) == call.pages[Len(call.pages)]

\* const page = pages[i]: the element whose capture is awaited.
PageToCapture(call) == call.pages[call.i + 1]

\* html2canvas of page i settles; on success the image is embedded, and
\* either the capture of page i + 1 is started or the document is
\* serialized and handed to onExport, if there is one.
CaptureSettles(c) ==
    /\ calls[c].pc = "capture"
    /\ \E outcome \in Outcomes("Unable to capture element") :
          LET call == calls[c]
              width == call.size.width
              height == call.size.height
              paged == IF NeedsNewPage(call.i)
                       THEN AddPage(call.pdf, width, height) ELSE call.pdf
              pdf == AddImage(paged, CapturedImage(PageToCapture(call)),
                              0, 0, width, height)
          IN  IF ~outcome.ok
              THEN Catch(c, outcome) /\ UNCHANGED onExportLog
              ELSE IF call.i + 1 < Len(call.pages)
              THEN /\ calls' = [calls EXCEPT ![c].i = call.i + 1, ![c].pdf = pdf]
                   /\ UNCHANGED <<isExporting, error, onExportLog>>
              ELSE IF hasOnExport
              THEN /\ onExportLog' =
                         Append(onExportLog,
                                [call |-> c,
                                 blob |-> [isBlob |-> TRUE, pages |-> pdf.pages],
                                 filename |-> ExportFilename])
                   /\ calls' = [calls EXCEPT ![c].pc = "callback", ![c].pdf = pdf]
                   /\ UNCHANGED <<isExporting, error>>
              ELSE ReturnBlob(c, pdf) /\ UNCHANGED onExportLog
    /\ UNCHANGED <<appVars, splitVars, pageSize, filename, hasOnExport, iframeBody,
                   crossOrigin, srcdocPending, domPages, previewVars>>

\* await onExport(blob, filename) settles (a callback that throws is a
\* callback whose await rejects).
CallbackSettles(c) ==
    /\ calls[c].pc = "callback"
    /\ \E outcome \in Outcomes("Upload failed") :
          IF outcome.ok THEN ReturnBlob(c, calls[c].pdf) ELSE Catch(c, outcome)
    /\ UNCHANGED <<appVars, splitVars, pageSize, filename, hasOnExport, iframeBody,
                   crossOrigin, srcdocPending, domPages, onExportLog, previewVars>>

\* The srcdoc of the iframe finishes loading: the document shown is replaced
\* by the assembled one, which has at least one page and as many as before
\* if only the page size changed; its script runs updateScale() once and
\* registers it for the resize events.
LoadDocument ==
    /\ iframeBody
    /\ srcdocPending
    /\ \E n \in 1..MaxDomPages :
          /\ IF domPages = <<>> THEN TRUE ELSE n = Len(domPages)
          /\ domPages' = [k \in 1..n |-> PageElement(k)]
    /\ srcdocPending' = FALSE
    /\ crossOrigin' = FALSE
    /\ docSize' = pageSize
    /\ previewScale' = updateScale(innerWidth, pageSize.width)
    /\ resizePending' = FALSE
    /\ UNCHANGED <<appVars, splitVars, pageSize, filename, hasOnExport, iframeBody,
                   isExporting, error, calls, onExportLog, innerWidth>>

\* The iframe is taken out of the page: iframeRef.current and the
\* contentWindow of the element are null from here on.
Unmount ==
    /\ iframeBody
    /\ iframeBody' = FALSE
    /\ crossOrigin' = FALSE
    /\ srcdocPending' = FALSE
    /\ domPages' = <<>>
    /\ docSize' = NoSize
    /\ previewScale' = NoScale
    /\ resizePending' = FALSE
    /\ UNCHANGED <<appVars, splitVars, pageSize, filename, hasOnExport,
                   isExporting, error, calls, onExportLog, innerWidth>>

\* A link of the rendered text is followed inside the iframe, which is not
\* sandboxed: the document of the preview gives way to one of another
\* origin.
NavigateAway ==
    /\ iframeBody
    /\ ~crossOrigin
    /\ ~srcdocPending
    /\ docSize # NoSize
    /\ crossOrigin' = TRUE
    /\ domPages' = <<>>
    /\ docSize' = NoSize
    /\ previewScale' = NoScale
    /\ resizePending' = FALSE
    /\ UNCHANGED <<appVars, splitVars, pageSize, filename, hasOnExport, iframeBody,
                   srcdocPending, isExporting, error, calls, onExportLog,
                   innerWidth>>

\* PageSizeControls onChange={setPageSize}: the page size changes, the hook
\* is called with the new options.pageSize and MarkdownPreview hands a new
\* srcdoc to the iframe, if there is one.  Nothing keeps this from happening
\* while an export is under way.
SetPageSize(size) ==
    /\ size # pageSize
    /\ pageSize' = size
    /\ srcdocPending' = iframeBody
    /\ UNCHANGED <<appVars, splitVars, filename, hasOnExport, iframeBody, crossOrigin,
                   domPages, isExporting, error, calls, onExportLog, previewVars>>

\* The iframe gets another width.
ResizeViewport(width) ==
    /\ iframeBody
    /\ width # innerWidth
    /\ innerWidth' = width
    /\ resizePending' = (docSize # NoSize)
    /\ UNCHANGED <<appVars, splitVars, pageSize, exportVars, docSize, previewScale>>

\* window.addEventListener('resize', updateScale): the resize event of the
\* iframe window is handled.
ResizeEvent ==
    /\ resizePending
    /\ previewScale' = updateScale(innerWidth, docSize.width)
    /\ resizePending' = FALSE
    /\ UNCHANGED <<appVars, splitVars, pageSize, exportVars, docSize, innerWidth>>

Init ==
    /\ markdown = <<>>
    /\ lastEdit = NoEdit
    /\ prev = [markdown |-> <<>>, pages |-> <<>>]
    /\ segments = <<>>
    /\ parsedPages = <<>>
    /\ paginatedHtml = <<>>
    /\ rendered = FALSE
    /\ pageSize \in PageSizes
    /\ filename \in {"", "presentation"}
    /\ hasOnExport \in BOOLEAN
    /\ iframeBody \in BOOLEAN
    /\ crossOrigin = FALSE
    /\ srcdocPending = iframeBody
    /\ domPages = <<>>
    /\ isExporting = FALSE
    /\ error = "null"
    /\ calls = [c \in Calls |-> IdleCall]
    /\ onExportLog = <<>>
    /\ innerWidth = 1000
    /\ PreviewAtRest
    /\ AppAtRest

Next ==
    \/ \E c \in Calls : Invoke(c)
    \/ \E c \in Calls : ImportSettles(c)
    \/ \E c \in Calls : CaptureSettles(c)
    \/ \E c \in Calls : CallbackSettles(c)
    \/ LoadDocument
    \/ Unmount

Spec == Init /\ [][Next]_vars

\* The same program when every await settles in the end: the dynamic
\* imports, each html2canvas capture and the promise of onExport.  Whether
\* a call settles depends neither on the page size nor on the file name,
\* so one of each is followed.
SettlingInit ==
    /\ Init
    /\ pageSize = [width |-> 210, height |-> 297, margin |-> 20]
    /\ filename = "presentation"

SettlingSpec ==
    /\ SettlingInit
    /\ [][Next]_vars
    /\ \A c \in Calls :
          /\ WF_vars(ImportSettles(c))
          /\ WF_vars(CaptureSettles(c))
          /\ WF_vars(CallbackSettles(c))

\* The hook as EditorPage uses it, usePdfExport(iframeRef, {filename:
\* 'presentation', pageSize}), next to the controls and the preview: the
\* preview is mounted, the page size can be changed and a link of the
\* preview can be followed at any time.
EditorInit ==
    /\ markdown = <<>>
    /\ lastEdit = NoEdit
    /\ prev = [markdown |-> <<>>, pages |-> <<>>]
    /\ segments = <<>>
    /\ parsedPages = <<>>
    /\ paginatedHtml = <<>>
    /\ rendered = FALSE
    /\ pageSize \in PageSizes
    /\ filename = "presentation"
    /\ hasOnExport = FALSE
    /\ iframeBody = TRUE
    /\ crossOrigin = FALSE
    /\ srcdocPending = TRUE
    /\ domPages = <<>>
    /\ isExporting = FALSE
    /\ error = "null"
    /\ calls = [c \in Calls |-> IdleCall]
    /\ onExportLog = <<>>
    /\ innerWidth = 1000
    /\ PreviewAtRest
    /\ AppAtRest

EditorNext ==
    \/ \E c \in Calls : Invoke(c)
    \/ \E c \in Calls : ImportSettles(c)
    \/ \E c \in Calls : CaptureSettles(c)
    \/ LoadDocument
    \/ NavigateAway
    \/ \E size \in PageSizes : SetPageSize(size)

EditorSpec == EditorInit /\ [][EditorNext]_vars

\* The preview alone: a mounted iframe, page sizes from the controls and a
\* viewport that is resized.
PreviewInit ==
    /\ markdown = <<>>
    /\ lastEdit = NoEdit
    /\ prev = [markdown |-> <<>>, pages |-> <<>>]
    /\ segments = <<>>
    /\ parsedPages = <<>>
    /\ paginatedHtml = <<>>
    /\ rendered = FALSE
    /\ pageSize \in PreviewPageSizes
    /\ filename = ""
    /\ hasOnExport = FALSE
    /\ iframeBody = TRUE
    /\ crossOrigin = FALSE
    /\ srcdocPending = TRUE
    /\ domPages = <<>>
    /\ isExporting = FALSE
    /\ error = "null"
    /\ calls = [c \in Calls |-> IdleCall]
    /\ onExportLog = <<>>
    /\ innerWidth \in InnerWidths
    /\ PreviewAtRest
    /\ AppAtRest

PreviewNext ==
    \/ LoadDocument
    \/ \E width \in InnerWidths : ResizeViewport(width)
    \/ ResizeEvent
    \/ \E size \in PreviewPageSizes : SetPageSize(size)

PreviewSpec == PreviewInit /\ [][PreviewNext]_vars

----------------------------------------------------------------------------
(* PageSizeControls                                                        *)

PresetNames ==
    {"A4", "A5", "Letter", "Slide (16:9)", "Slide (4:3)", "Custom Book"}

PAGE_PRESETS ==
    [name \in PresetNames |->
        CASE name = "A4" -> [width |-> 210, height |-> 297, margin |-> 20]
          [] name = "A5" -> [width |-> 148, height |-> 210, margin |-> 15]
          [] name = "Letter" -> [width |-> 216, height |-> 279, margin |-> 20]
          [] name = "Slide (16:9)" -> [width |-> 254, height |-> 143, margin |-> 10]
          [] name = "Slide (4:3)" -> [width |-> 254, height |-> 190, margin |-> 10]
          [] name = "Custom Book" -> [width |-> 180, height |-> 250, margin |-> 15]]

Fields == {"width", "height", "margin"}

\* min={...} and max={...} of the three number inputs.
FieldMin(field) == IF field = "margin" THEN 0 ELSE 50
FieldMax(field) == IF field = "margin" THEN 50 ELSE 500

\* e.target.value of a number input: the digits of a number (isNumber is
\* FALSE for a text that is none, as of a cleared field).
NumberText(n) == [isNumber |-> TRUE, n |-> n]

\* The texts a field is given when it is edited within its bounds: both
\* ends of its range and values between them.
FieldTexts(field) ==
    {NumberText(n) : n \in {m \in {0, 25, 49, 50, 51, 100, 143, 297, 500} :
                              FieldMin(field) <= m /\ m <= FieldMax(field)}}

\* parseFloat(text): NaN for a text that is no number.
parseFloat(text) == [isNaN |-> ~text.isNumber, n |-> text.n]

\* x || 0: NaN and 0 are falsy.
OrZero(x) == IF x.isNaN \/ x.n = 0 THEN 0 ELSE x.n

\* handlePresetChange: a preset of the select is chosen.
handlePresetChange(name) ==
    /\ name \in DOMAIN PAGE_PRESETS
    /\ SetPageSize(PAGE_PRESETS[name])

\* handleInputChange(field): a number field is edited; the parsed value
\* replaces the field of the current size, whatever the other fields are.
handleInputChange(field, text) ==
    /\ field \in Fields
    /\ LET parsed == OrZero(parseFloat(text))
       IN  SetPageSize([pageSize EXCEPT ![field] = parsed])

\* The controls alone, next to a parent that keeps the size they hand out:
\* <PageSizeControls pageSize={pageSize} onChange={setPageSize} />, starting
\* from DEFAULT_PAGE_SIZE.
ControlsInit ==
    /\ markdown = <<>>
    /\ lastEdit = NoEdit
    /\ prev = [markdown |-> <<>>, pages |-> <<>>]
    /\ segments = <<>>
    /\ parsedPages = <<>>
    /\ paginatedHtml = <<>>
    /\ rendered = FALSE
    /\ pageSize = [width |-> 254, height |-> 143, margin |-> 10]
    /\ ExportAtRest
    /\ innerWidth = 1000
    /\ PreviewAtRest
    /\ AppAtRest

ControlsNext ==
    \/ \E name \in PresetNames : handlePresetChange(name)
    \/ \E field \in Fields : \E text \in FieldTexts(field) :
          handleInputChange(field, text)

ControlsSpec == ControlsInit /\ [][ControlsNext]_vars

----------------------------------------------------------------------------
(* The backend serving one inviter                                         *)

\* The editor package with nothing mounted.
PackageAtRest ==
    /\ markdown = <<>>
    /\ lastEdit = NoEdit
    /\ prev = [markdown |-> <<>>, pages |-> <<>>]
    /\ segments = <<>>
    /\ parsedPages = <<>>
    /\ paginatedHtml = <<>>
    /\ rendered = FALSE
    /\ pageSize = [width |-> 254, height |-> 143, margin |-> 10]
    /\ ExportAtRest
    /\ innerWidth = 1000
    /\ PreviewAtRest

\* The inviter has been granted some quota; no request has arrived.
InviteInit ==
    /\ PackageAtRest
    /\ startQuota \in StartQuotas
    /\ invitationQuota = startQuota
    /\ invitations = {}
    /\ mails = {}
    /\ requests = [r \in Requests |-> IdleRequest]
    /\ LoginAtRest
    /\ UploadAtRest
    /\ MarkdownEditorAtRest

InviteNext ==
    \/ \E r \in Requests : \E email \in Emails : \E message \in Messages :
          PostInvitations(r, email, message)
    \/ \E r \in Requests : SaveSettles(r)
    \/ \E r \in Requests : DecrementSettles(r)
    \/ \E r \in Requests : MailSettles(r)

InviteSpec == InviteInit /\ [][InviteNext]_vars

----------------------------------------------------------------------------
(* The admin app on its login page                                         *)

\* The login page is opened with a magic link; localStorage is empty or
\* holds the token of an earlier session.
LoginInit ==
    /\ PackageAtRest
    /\ InviteAtRest
    /\ token \in {NoToken, [by |-> 0, value |-> "jwt"]}
    /\ location = "/login"
    /\ isLoading = FALSE
    /\ loginMessage = ""
    /\ logins = [c \in Logins |-> IdleLogin]
    /\ UploadAtRest
    /\ MarkdownEditorAtRest

LoginNext ==
    \/ \E c \in Logins : verifyToken(c)
    \/ \E c \in Logins : VerifySettles(c)
    \/ \E c \in Logins : GetMeSettles(c)

LoginSpec == LoginInit /\ [][LoginNext]_vars

----------------------------------------------------------------------------
(* The editor page of the frontend: Publish, the dialog and handleUpload   *)

\* What UploadDialog hands to onConfirm: a title that is not empty once
\* trimmed, and a comment.
Titles == {"My Presentation"}
Comments == {"", "v2"}

\* comment ? `${title} - ${comment}` : title, as the pieces of the string.
FinalTitle(title, comment) ==
    IF comment # "" THEN <<title, " - ", comment>> ELSE <<title>>

\* new File([blob], `${title}.pdf`, {type: 'application/pdf'})
NewFile(blob, title) ==
    [parts |-> blob.pages, name |-> <<title, ".pdf">>, type |-> "application/pdf"]

\* Mutant: whatever exportPdf resolved to is uploaded.
BlobMissing_Never(blob) == FALSE

\* !blob
BlobMissing(blob) == ~blob.isBlob

\* err instanceof Error ? err.message : 'Upload failed'
UploadFailureMessage(thrown) ==
    IF thrown.isError THEN thrown.message ELSE "Upload failed"

\* The Publish button, disabled while isExporting.
OpenDialog ==
    /\ route = "/presentations/new"
    /\ ~isExporting
    /\ ~showUploadDialog
    /\ showUploadDialog' = TRUE
    /\ UNCHANGED <<packageVars, outsideEditorPage, isUploading, uploadError,
                   route, uploads, uploadLog>>

\* onClose of the dialog: Cancel, Escape or the backdrop, none of which
\* acts while isUploading.
CloseDialog ==
    /\ route = "/presentations/new"
    /\ showUploadDialog
    /\ ~isUploading
    /\ showUploadDialog' = FALSE
    /\ UNCHANGED <<packageVars, outsideEditorPage, isUploading, uploadError,
                   route, uploads, uploadLog>>

\* handleUpload(title, comment), the onConfirm of the dialog (its submit
\* button is disabled while isUploading), up to its first await: the two
\* state updates and exportPdf() up to its own first await.
handleUpload(c, title, comment) ==
    /\ route = "/presentations/new"
    /\ showUploadDialog
    /\ ~isUploading
    /\ exportPdf(c)
    /\ isUploading' = TRUE
    /\ uploadError' = "null"
    /\ uploads' = [uploads EXCEPT ![c] =
                      [pc |-> "exportPdf", file |-> <<title>>,
                       finalTitle |-> FinalTitle(title, comment)]]
    /\ UNCHANGED <<outsideEditorPage, showUploadDialog, route, uploadLog>>

\* catch (err) and finally of handleUpload.
UploadCatch(c, thrown) ==
    /\ uploadError' = UploadFailureMessage(thrown)
    /\ isUploading' = FALSE
    /\ uploads' = [uploads EXCEPT ![c].pc = "done"]
    /\ UNCHANGED <<showUploadDialog, route>>

\* await exportPdf() has settled and handleUpload goes on: with a rejected
\* promise or without a blob it ends in its catch block, with a blob the
\* file is made and uploadApi.uploadPresentation is started.
ExportReturns(c) ==
    /\ uploads[c].pc = "exportPdf"
    /\ calls[c].pc \in {"done", "rejected"}
    /\ IF calls[c].pc = "rejected"
       THEN UploadCatch(c, calls[c].err) /\ UNCHANGED uploadLog
       ELSE IF BlobMissing(calls[c].result)
       THEN UploadCatch(c, Thrown("Failed to generate PDF")) /\ UNCHANGED uploadLog
       ELSE /\ uploadLog' =
                  Append(uploadLog,
                         [call |-> c,
                          file |-> NewFile(calls[c].result, uploads[c].file[1]),
                          title |-> uploads[c].finalTitle])
            /\ uploads' = [uploads EXCEPT ![c].pc = "uploadPresentation"]
            /\ UNCHANGED <<showUploadDialog, isUploading, uploadError, route>>
    /\ UNCHANGED <<packageVars, outsideEditorPage>>

\* await uploadApi.uploadPresentation(file, finalTitle) settles: the dialog
\* is closed and the page of the presentation is shown, or the failure is
\* caught; either way the finally block runs.
UploadSettles(c) ==
    /\ uploads[c].pc = "uploadPresentation"
    /\ \E outcome \in Outcomes("Request failed with status code 413") :
          IF outcome.ok
          THEN /\ showUploadDialog' = FALSE
               /\ route' = "/presentations/:id"
               /\ isUploading' = FALSE
               /\ uploads' = [uploads EXCEPT ![c].pc = "done"]
               /\ UNCHANGED uploadError
          ELSE UploadCatch(c, outcome)
    /\ UNCHANGED <<packageVars, outsideEditorPage, uploadLog>>

\* The Download PDF button, disabled while isExporting.
handleDownload(c) ==
    /\ route = "/presentations/new"
    /\ ~isExporting
    /\ Invoke(c)

\* EditorPage mounted: usePdfExport(iframeRef, {filename: 'presentation',
\* pageSize}) without onExport, the preview iframe about to load.
UploadInit ==
    /\ markdown = <<>>
    /\ lastEdit = NoEdit
    /\ prev = [markdown |-> <<>>, pages |-> <<>>]
    /\ segments = <<>>
    /\ parsedPages = <<>>
    /\ paginatedHtml = <<>>
    /\ rendered = FALSE
    /\ pageSize = [width |-> 254, height |-> 143, margin |-> 10]
    /\ filename = "presentation"
    /\ hasOnExport = FALSE
    /\ iframeBody = TRUE
    /\ crossOrigin = FALSE
    /\ srcdocPending = TRUE
    /\ domPages = <<>>
    /\ isExporting = FALSE
    /\ error = "null"
    /\ calls = [c \in Calls |-> IdleCall]
    /\ onExportLog = <<>>
    /\ innerWidth = 1000
    /\ PreviewAtRest
    /\ InviteAtRest
    /\ LoginAtRest
    /\ UploadAtRest
    /\ MarkdownEditorAtRest

UploadNext ==
    \/ OpenDialog
    \/ CloseDialog
    \/ \E c \in Calls : \E title \in Titles : \E comment \in Comments :
          handleUpload(c, title, comment)
    \/ \E c \in Calls : handleDownload(c)
    \/ \E c \in Calls : ImportSettles(c)
    \/ \E c \in Calls : CaptureSettles(c)
    \/ \E c \in Calls : ExportReturns(c)
    \/ \E c \in Calls : UploadSettles(c)
    \/ LoadDocument
    \/ NavigateAway

UploadSpec == UploadInit /\ [][UploadNext]_vars

----------------------------------------------------------------------------
(* MarkdownEditor mounted by an owner that feeds onChange back into value  *)

\* The first render: EditorState.create({doc: value}), and the effect on
\* [value] is still to run.
MarkdownEditorInit ==
    /\ PackageAtRest
    /\ InviteAtRest
    /\ LoginAtRest
    /\ UploadAtRest
    /\ ownerText \in OwnerTexts
    /\ value = ownerText
    /\ valueEffectPending = TRUE
    /\ doc = DocOf(value)
    /\ isExternalUpdate = FALSE
    /\ onChangeLog = <<>>
    /\ userEdits = 0

MarkdownEditorNext ==
    \/ \E text \in OwnerTexts : LoadText(text)
    \/ RenderOwner
    \/ ValueEffect
    \/ \E key \in Keys : TypeKey(key)
    \/ Backspace

MarkdownEditorSpec == MarkdownEditorInit /\ [][MarkdownEditorNext]_vars

----------------------------------------------------------------------------
(* Properties of the export                                                *)

\* The output page that holds exactly the capture of one page element, laid
\* over the whole page box of the given size.
OutputPageOf(element, size) ==
    [format |-> <<size.width, size.height>>,
     images |-> << [data |-> CapturedImage(element), x |-> 0, y |-> 0,
                    w |-> size.width, h |-> size.height] >>]

EmptyOutputPage(size) ==
    [format |-> <<size.width, size.height>>, images |-> <<>>]

\* C1: an export of N >= 1 page elements gives a document of exactly N
\* pages, the k-th holding the capture of the k-th element and created with
\* the configured [width, height]; while page i is being captured the
\* document holds the pages embedded so far, one empty page before the
\* first image and no page waiting before a later one.
C1_OnePagePerElement ==
    \A c \in Calls :
        LET call == calls[c]
        IN  /\ call.pc = "capture" =>
                  /\ call.size \in PageSizes
                  /\ call.pdf.pages =
                        IF call.i = 0 THEN <<EmptyOutputPage(call.size)>>
                        ELSE [k \in 1..call.i |->
                                OutputPageOf(call.pages[k], call.size)]
            /\ call.result.isBlob =>
                  /\ Len(call.pages) >= 1
                  /\ call.result.pages =
                        [k \in 1..Len(call.pages) |->
                            OutputPageOf(call.pages[k], call.size)]

C1_Witness ==
    \E c \in Calls :
        /\ calls[c].result.isBlob
        /\ Len(calls[c].result.pages) = 3
        /\ calls[c].size.width > calls[c].size.height

\* C2: no two exportPdf invocations are in their page-capture loop at the
\* same time.
C2_NoConcurrentPasses ==
    Cardinality({c \in Calls : calls[c].pc = "capture"}) <= 1

----------------------------------------------------------------------------
(* Properties of the splitter                                              *)

\* The page texts of the last render, in order.
PageTexts == [k \in 1..Len(parsedPages) |-> parsedPages[k].markdown]

TrimAll(pages) == [k \in 1..Len(pages) |-> Trim(pages[k])]

IsBlank(s) == \A j \in 1..Len(s) : IsWhiteSpace(s[j])

\* The line of s that holds position i, for a position that is not itself a
\* line terminator: the longest run around i free of line terminators.
LineStart(s, i) ==
    CHOOSE j \in 1..i :
        /\ \A m \in j..i : ~IsLineTerminator(s[m])
        /\ IF j = 1 THEN TRUE ELSE IsLineTerminator(s[j - 1])

LineEnd(s, i) ==
    CHOOSE j \in i..Len(s) :
        /\ \A m \in i..j : ~IsLineTerminator(s[m])
        /\ IF j = Len(s) THEN TRUE ELSE IsLineTerminator(s[j + 1])

LineOf(s, i) == SubSeq(s, LineStart(s, i), LineEnd(s, i))

\* The delimiters of the format contract, as <<first, last>> positions: a
\* form feed anywhere, and a line that is exactly the token.
DelimiterSpans(s) ==
    {<<i, i>> : i \in {j \in 1..Len(s) : s[j] = FF}}
    \cup {<<i, i + Len(PageToken) - 1>> :
            i \in {j \in 1..Len(s) : /\ ~IsLineTerminator(s[j])
                                     /\ LineStart(s, j) = j
                                     /\ LineOf(s, j) = PageToken}}

\* The texts between consecutive delimiters, nth(k) being the k-th delimiter
\* from the left: the text before the first one starts after position 0, the
\* text after the last one ends before Len(s) + 1.
TextsBetweenDelimiters(s) ==
    LET spans == DelimiterSpans(s)
        n == Cardinality(spans)
        nth(k) == IF k = 0 THEN <<0, 0>>
                  ELSE IF k > n THEN <<Len(s) + 1, Len(s) + 1>>
                  ELSE CHOOSE d \in spans :
                          Cardinality({c \in spans : c[1] <= d[1]}) = k
    IN  [k \in 1..(n + 1) |-> SubSeq(s, nth(k - 1)[2] + 1, nth(k)[1] - 1)]

ExampleAB == <<"A", LF>> \o PageToken \o <<LF, "B">>
ExampleTrailing == <<"A", LF>> \o PageToken \o <<LF>>
ExampleFormFeed == <<"A", FF, "B">>
ExampleCrLf == <<"A", CR, LF>> \o PageToken \o <<CR, LF, "B">>

\* C3: every input text, the empty string included, gives at least one
\* page; the empty string gives exactly one page, the empty string.
C3_SplitNonEmpty ==
    rendered =>
        /\ Len(parsedPages) >= 1
        /\ (markdown = <<>> => PageTexts = << <<>> >>)

C3_Witness == rendered /\ markdown = <<>> /\ Len(parsedPages) = 1

\* The positions of the segments the splitting policy keeps: the first one,
\* and every later one that holds a non-whitespace character.
KeptSegments ==
    {1} \cup {i \in 2..Len(segments) : ~IsBlank(segments[i])}

NthKept(k) ==
    CHOOSE i \in KeptSegments : Cardinality({j \in KeptSegments : j <= i}) = k

\* C4: the first segment is always kept, a later segment is kept if and only
\* if it holds a non-whitespace character, and the order is preserved;
\* "A\n---page---\nB" gives "A\n" and "\nB", "A\n---page---\n" gives "A\n".
C4_FilterPolicy ==
    rendered =>
        /\ Len(PageTexts) = Cardinality(KeptSegments)
        /\ \A k \in 1..Len(PageTexts) : PageTexts[k] = segments[NthKept(k)]
        /\ (markdown = ExampleAB => PageTexts = << <<"A", LF>>, <<LF, "B">> >>)
        /\ (markdown = ExampleTrailing => PageTexts = << <<"A", LF>> >>)

C4_Witness ==
    /\ rendered
    /\ IsBlank(segments[1])
    /\ \E i \in 2..Len(segments) : IsBlank(segments[i])
    /\ \E i \in 2..Len(segments) : ~IsBlank(segments[i])

\* The form feed at position i of s has the token written right before or
\* right after it.
TokenNextTo(s, i) == TokenAt(s, i + 1) \/ TokenAt(s, i - Len(PageToken))

\* C5 as stated: replacing one delimiter form by the other, in either
\* direction, keeps the number of pages and the trimmed content of each.
C5_Original ==
    (rendered /\ lastEdit.kind \in {"ffToLine", "lineToFf"}) =>
        TrimAll(PageTexts) = TrimAll(prev.pages)

\* C5 (amended): a `---page---` line rewritten as a form feed keeps the
\* pages; a form feed rewritten as a `---page---` line keeps the number of
\* pages and their trimmed content unless the token is written right next to
\* that form feed; "A\fB" and "A\n---page---\nB" both give the trimmed pages
\* "A" and "B".
C5_Interchangeable ==
    rendered =>
        /\ lastEdit.kind = "lineToFf" => PageTexts = prev.pages
        /\ (lastEdit.kind = "ffToLine" /\ ~TokenNextTo(prev.markdown, lastEdit.at))
              => TrimAll(PageTexts) = TrimAll(prev.pages)
        /\ markdown \in {ExampleFormFeed, ExampleAB}
              => TrimAll(PageTexts) = << <<"A">>, <<"B">> >>

C5_Witness ==
    /\ rendered
    /\ lastEdit.kind = "ffToLine"
    /\ prev.markdown = ExampleFormFeed
    /\ markdown = ExampleAB
    /\ Len(parsedPages) = 2

\* C6: the only delimiters are a line exactly equal to `---page---` and a
\* form feed at any position: the text is cut at exactly these, and a token
\* that is only part of a line never cuts it.
C6_OnlyDelimiters ==
    rendered =>
        /\ segments = TextsBetweenDelimiters(NormalizeLineEndings(markdown))
        /\ \A i \in 1..Len(markdown) :
              (TokenAt(markdown, i) /\ LineOf(markdown, i) # PageToken)
                 => \E k \in 1..Len(segments) :
                       \E j \in 1..Len(segments[k]) : TokenAt(segments[k], j)

C6_Witness ==
    /\ rendered
    /\ Len(segments) >= 2
    /\ \E i \in 1..Len(markdown) :
          TokenAt(markdown, i) /\ LineOf(markdown, i) # PageToken
    /\ \E i \in 2..(Len(markdown) - 1) :
          /\ markdown[i] = FF
          /\ ~IsLineTerminator(markdown[i - 1])
          /\ ~IsLineTerminator(markdown[i + 1])

\* C7 as stated: a document without delimiters gives one page, the input.
C7_Original ==
    (rendered /\ DelimiterSpans(markdown) = {}) => PageTexts = <<markdown>>

\* C7 (amended): a document without delimiters gives exactly one page, and
\* its content is the whole input text with every CRLF written as LF.
C7_NoDelimiterOnePage ==
    (rendered /\ DelimiterSpans(markdown) = {}) =>
        PageTexts = <<ReplaceCrLf(markdown)>>

C7_Witness ==
    /\ rendered
    /\ DelimiterSpans(markdown) = {}
    /\ HasCrLf(markdown)
    /\ \E i \in 1..Len(markdown) : TokenAt(markdown, i)

HasCrCrLf(s) ==
    \E i \in 1..(Len(s) - 2) : s[i] = CR /\ s[i + 1] = CR /\ s[i + 2] = LF

\* C8 as stated: a text and the same text with every CRLF replaced by LF
\* give the same pages.
C8_Original ==
    (rendered /\ lastEdit.kind = "crlfToLf") => PageTexts = prev.pages

\* C8 (amended): a text in which no CR stands right before a CRLF gives the
\* same pages as that text with every CRLF replaced by LF, and a
\* `---page---` line terminated by CRLF is a delimiter.
C8_CrLfNormalized ==
    rendered =>
        /\ (lastEdit.kind = "crlfToLf" /\ ~HasCrCrLf(prev.markdown))
              => PageTexts = prev.pages
        /\ markdown = ExampleCrLf => PageTexts = << <<"A", LF>>, <<LF, "B">> >>

C8_Witness ==
    /\ rendered
    /\ lastEdit.kind = "crlfToLf"
    /\ prev.markdown = ExampleCrLf
    /\ Len(parsedPages) = 2

\* C9: the render gives one wrapped page element per page of the splitter,
\* in the same order; the k-th page (from 0) has index k, carries the k-th
\* kept segment as its markdown, and its data-page is k + 1.
C9_OneElementPerPage ==
    rendered =>
        /\ Len(parsedPages) = Cardinality(KeptSegments)
        /\ Len(paginatedHtml) = Len(parsedPages)
        /\ \A k \in 1..Len(parsedPages) :
              /\ parsedPages[k].index = k - 1
              /\ parsedPages[k].markdown = segments[NthKept(k)]
              /\ parsedPages[k].html = markdownToHtml(segments[NthKept(k)])
              /\ paginatedHtml[k].wrapper = "page-wrapper"
              /\ "page" \in paginatedHtml[k].class
              /\ paginatedHtml[k].html = parsedPages[k].html
              /\ paginatedHtml[k].dataPage = k

C9_Witness ==
    /\ rendered
    /\ Len(segments) = 3
    /\ IsBlank(segments[2])
    /\ Len(paginatedHtml) = 2
    /\ paginatedHtml[2].dataPage = 2

\* C10: in an assembled document exactly one page element is flagged as the
\* last page, the final one; a page break is forced after every page but
\* that one, in print as on screen.
C10_BreakAfterAllButLast ==
    rendered =>
        LET n == Len(paginatedHtml)
            sheet == generatePrintStyles(pageSize)
        IN  /\ n >= 1
            /\ \A k \in 1..n :
                  /\ "last-page" \in paginatedHtml[k].class <=> k = n
                  /\ \A medium \in {"print", "screen"} :
                        /\ ComputedStyle(sheet, paginatedHtml[k].class, medium,
                                         "break_after")
                              = IF k < n THEN "page" ELSE "auto"
                        /\ ComputedStyle(sheet, paginatedHtml[k].class, medium,
                                         "page_break_after")
                              = IF k < n THEN "always" ELSE "auto"

C10_Witness ==
    /\ rendered
    /\ Len(paginatedHtml) = 3
    /\ "last-page" \in paginatedHtml[3].class
    /\ "last-page" \notin paginatedHtml[2].class

----------------------------------------------------------------------------
(* Properties of the stylesheet and of the preview                         *)

\* The class lists of the page elements of a document of n pages.
PageClasses(n) == {PageClass(k - 1, n) : k \in 1..n}

\* C11: for every valid PageSize, in the print medium and in the screen
\* medium (the base rules with the rules of the medium laid over them), the
\* box of every page element is width x height mm outside and
\* (width - 2 margin) x (height - 2 margin) mm inside.
C11_PageBoxIsPhysical ==
    docSize # NoSize =>
        \A medium \in {"print", "screen"} :
            \A classes \in PageClasses(Len(domPages)) :
                LET styles == generatePrintStyles(docSize)
                IN  LayoutBox(styles, classes, medium)
                    = [outerWidth |-> docSize.width,
                       outerHeight |-> docSize.height,
                       contentWidth |-> docSize.width - 2 * docSize.margin,
                       contentHeight |-> docSize.height - 2 * docSize.margin]

C11_Witness ==
    /\ docSize = [width |-> 143, height |-> 500, margin |-> 50]
    /\ Len(domPages) = 2
    /\ LayoutBox(generatePrintStyles(docSize), {"page"}, "screen").contentWidth = 43
    /\ LayoutBox(generatePrintStyles(docSize), {"page", "last-page"},
                 "print").outerHeight = 500

\* quotient <= 1, exactly (see RatioBelowOne).
QuotientAtMostOne(viewportWidth, widthMm) ==
    viewportWidth * 10000
        <= widthMm * MM_TO_PX_HIGH + (widthMm * MM_TO_PX_LOW) \div 1000000

ScaleAtMostOne(scale) ==
    scale.isOne \/ QuotientAtMostOne(scale.viewportWidth, scale.widthMm)

\* a <= b as numbers, for two scales of pages of positive width.
ScaleLeq(a, b) ==
    IF a.isOne /\ b.isOne THEN TRUE
    ELSE IF a.isOne THEN ~RatioBelowOne(b.viewportWidth, b.widthMm)
    ELSE IF b.isOne THEN QuotientAtMostOne(a.viewportWidth, a.widthMm)
    ELSE a.viewportWidth * b.widthMm <= b.viewportWidth * a.widthMm

\* C12: once the document is loaded and no resize event is waiting,
\* --preview-scale is min((innerWidth - 40) / (pageWidthMm * 3.7795275591), 1)
\* for the current viewport; it is never above 1; and for one and the same
\* document a scale written for a viewport that is not wider is not larger.
C12_ScaleFitsWidth ==
    /\ [](docSize # NoSize /\ ~resizePending =>
            /\ previewScale =
                  IF RatioBelowOne(innerWidth - 40, docSize.width)
                  THEN Quotient(innerWidth - 40, docSize.width) ELSE One
            /\ ScaleAtMostOne(previewScale))
    /\ [][(/\ docSize # NoSize
           /\ docSize' = docSize
           /\ ~resizePending'
           /\ \/ previewScale.isOne
              \/ innerWidth' - 40 <= previewScale.viewportWidth)
          => ScaleLeq(previewScale', previewScale)]_vars

C12_Witness ==
    /\ docSize.width = 254
    /\ innerWidth = 1000
    /\ ~resizePending
    /\ previewScale = Quotient(960, 254)

----------------------------------------------------------------------------
(* Properties of the failure paths of the export                           *)

\* The invocation has passed the surface check and its promise is pending.
InFlight(c) == calls[c].pc \in {"import", "capture", "callback"}

\* Every page element of the invocation is embedded in its document.
Serialized(c) ==
    /\ Len(calls[c].pages) >= 1
    /\ calls[c].pdf.pages =
          [k \in 1..Len(calls[c].pages) |->
              OutputPageOf(calls[c].pages[k], calls[c].size)]

\* The positions of onExportLog at which onExport was invoked by call c.
CallbackCalls(c) == {j \in 1..Len(onExportLog) : onExportLog[j].call = c}

\* C13: when the capture of a page fails, the export ends there: the call
\* resolves to null (never to the pages embedded so far), error is set,
\* isExporting is false, onExport is not invoked; and a call that has
\* ended captures nothing more.
C13_CaptureFailureAborts ==
    [][\A c \in Calls :
          /\ (calls[c].pc = "capture" /\ ~calls'[c].err.ok) =>
                /\ calls'[c].pc = "done"
                /\ calls'[c].result = Null
                /\ calls'[c].i = calls[c].i
                /\ error' # "null"
                /\ isExporting' = FALSE
                /\ onExportLog' = onExportLog
                /\ CallbackCalls(c) = {}
          /\ calls[c].pc = "done" =>
                /\ calls'[c] = calls[c]
                /\ \A j \in 1..Len(onExportLog') :
                      onExportLog'[j].call = c => j <= Len(onExportLog)]_vars

C13_Witness ==
    \E c \in Calls :
        /\ calls[c].pc = "done"
        /\ ~calls[c].err.ok
        /\ Len(calls[c].pages) = 3
        /\ calls[c].i = 1
        /\ Len(calls[c].pdf.pages) = 1
        /\ calls[c].result = Null
        /\ hasOnExport
        /\ CallbackCalls(c) = {}

\* C14 as stated: every call that has embedded and serialized all its pages
\* returns that blob, whatever its onExport callback did.
C14_Original ==
    \A c \in Calls :
        (calls[c].pc = "done" /\ Serialized(c)) =>
            calls[c].result = [isBlob |-> TRUE, pages |-> calls[c].pdf.pages]

\* C14: a call that has embedded and serialized all its pages returns that
\* blob if there is no onExport callback or the callback completes; if the
\* callback throws or rejects, the blob was handed to it and the call
\* resolves to null.
C14_BlobUnlessCallbackFails ==
    \A c \in Calls :
        (calls[c].pc = "done" /\ Serialized(c)) =>
            IF calls[c].err.ok
            THEN calls[c].result = [isBlob |-> TRUE, pages |-> calls[c].pdf.pages]
            ELSE /\ calls[c].result = Null
                 /\ hasOnExport
                 /\ \E j \in CallbackCalls(c) :
                       onExportLog[j].blob.pages = calls[c].pdf.pages

C14_Witness ==
    \E c \in Calls :
        /\ calls[c].pc = "done"
        /\ Serialized(c)
        /\ Len(calls[c].pages) = 2
        /\ ~calls[c].err.ok
        /\ calls[c].result = Null
        /\ CallbackCalls(c) # {}

\* C15: however an export fails, its promise is fulfilled, never rejected,
\* and at the moment it settles without a blob error is non-null and
\* isExporting is false.
C15_FailuresBecomeState ==
    [][\A c \in Calls :
          (/\ calls[c].pc \notin {"done", "rejected"}
           /\ calls'[c].pc \in {"done", "rejected"}
           /\ ~calls'[c].result.isBlob) =>
                /\ calls'[c].pc = "done"
                /\ error' # "null"
                /\ isExporting' = FALSE]_vars

\* What a failed dynamic import leaves in the catch block.
ImportFailures ==
    {Thrown("Failed to fetch dynamically imported module"), ThrownNonError}

\* C16: when the imports have settled well and the document of the iframe
\* has no page element, the export fails with 'No pages found in document':
\* the call resolves to null, no page is captured, onExport is not invoked
\* and isExporting is false.
C16_NoPagesFails ==
    [][\A c \in Calls :
          (/\ calls[c].pc = "import"
           /\ calls'[c].pc # "import"
           /\ iframeBody /\ ~crossOrigin /\ Len(domPages) = 0
           /\ calls'[c].err \notin ImportFailures) =>
                /\ calls'[c].pc = "done"
                /\ calls'[c].result = Null
                /\ calls'[c].pages = <<>>
                /\ calls'[c].pdf.pages = <<>>
                /\ error' = "No pages found in document"
                /\ isExporting' = FALSE
                /\ onExportLog' = onExportLog
                /\ CallbackCalls(c) = {}]_vars

C16_Witness ==
    \E c \in Calls :
        /\ calls[c].pc = "done"
        /\ calls[c].err = Thrown("No pages found in document")
        /\ calls[c].result = Null
        /\ calls[c].pages = <<>>
        /\ error = "No pages found in document"
        /\ ~isExporting
        /\ hasOnExport
        /\ onExportLog = <<>>

C18_ExportingIffInFlight ==
    isExporting <=> (\E c \in Calls : InFlight(c))

\* C19: every export that ends with a blob has captured only page elements
\* that were laid out for the PageSize its output pages are created with.
C19_OnePageSizePerExport ==
    \A c \in Calls :
        calls[c].result.isBlob =>
            \A k \in 1..Len(calls[c].pages) :
                /\ calls[c].pages[k].size = calls[c].size
                /\ calls[c].result.pages[k].format
                      = <<calls[c].pages[k].size.width, calls[c].pages[k].size.height>>

\* C20: onExport is invoked at most once per call, and exactly once for a
\* call of a hook with a callback that has embedded all its pages and
\* serialized the document: with that blob and with options.filename
\* followed by '.pdf' ('document.pdf' without a filename).  A call whose
\* surface check, page lookup or capture failed never invokes it.
C20_CallbackOncePerBuild ==
    \A c \in Calls :
        /\ Cardinality(CallbackCalls(c)) <= 1
        /\ CallbackCalls(c) # {} <=>
              /\ hasOnExport
              /\ calls[c].pc \in {"callback", "done"}
              /\ Serialized(c)
        /\ \A j \in CallbackCalls(c) :
              /\ onExportLog[j].blob =
                    [isBlob |-> TRUE,
                     pages |-> [k \in 1..Len(calls[c].pages) |->
                                  OutputPageOf(calls[c].pages[k], calls[c].size)]]
              /\ onExportLog[j].filename =
                    IF filename = "" THEN <<"document", ".pdf">>
                    ELSE <<filename, ".pdf">>

C20_Witness ==
    /\ filename = ""
    /\ Len(onExportLog) = 2
    /\ onExportLog[1].call = 2
    /\ onExportLog[1].filename = <<"document", ".pdf">>
    /\ Len(onExportLog[2].blob.pages) = 3
    /\ calls[1].result.isBlob
    /\ calls[2].result = Null

----------------------------------------------------------------------------
(* Properties of the page-size controls                                    *)

\* C21: every PageSize the controls hand to onChange, by preset selections
\* and by field edits within the bounds of the fields, has width > 0,
\* height > 0, margin >= 0 and margin * 2 below both width and height.
C21_ControlsHandOutValidSizes ==
    /\ pageSize.width > 0
    /\ pageSize.height > 0
    /\ pageSize.margin >= 0
    /\ pageSize.margin * 2 < pageSize.width
    /\ pageSize.margin * 2 < pageSize.height

----------------------------------------------------------------------------
(* Properties of the capture loop and of the end of an export              *)

\* The pages of the document of call c while the capture of page element
\* i + 1 is awaited: the first i elements, embedded in their order, one per
\* page (the page jsPDF starts with is still empty before the first one).
EmbeddedSoFar(c) ==
    IF calls[c].i = 0 THEN <<EmptyOutputPage(calls[c].size)>>
    ELSE [k \in 1..calls[c].i |-> OutputPageOf(calls[c].pages[k], calls[c].size)]

\* One step of the loop of call c: it goes on awaiting the same capture, or
\* that capture has been embedded and the one of the next element is awaited.
NextCaptureOnly(c) ==
    (calls[c].pc = "capture" /\ calls'[c].pc = "capture")
        => /\ calls'[c].pages = calls[c].pages
           /\ \/ calls'[c].i = calls[c].i /\ calls'[c].pdf = calls[c].pdf
              \/ /\ calls'[c].i = calls[c].i + 1
                 /\ Len(calls'[c].pdf.pages) = calls'[c].i

\* C22: the captures of one export are strictly sequential: while the
\* capture of page N + 1 is awaited, exactly the pages 1..N are embedded, in
\* increasing page index, and a step starts the capture of the next page
\* only by embedding the one that was awaited, so that one capture of the
\* export is outstanding at a time.
C22_CapturesAreSequential ==
    /\ [](\A c \in Calls :
            calls[c].pc = "capture"
                => /\ calls[c].i < Len(calls[c].pages)
                   /\ calls[c].pdf.pages = EmbeddedSoFar(c))
    /\ [][\A c \in Calls : NextCaptureOnly(c)]_vars

\* The capture of the third page is awaited, the first two are embedded.
C22_Witness ==
    \E c \in Calls : calls[c].pc = "capture" /\ calls[c].i = 2

\* C23: when every import, capture and callback settles in the end, every
\* exportPdf call that has set isExporting settles: the calls being finitely
\* many, from some moment on none is in flight any more (none stays at an
\* await for ever); isExporting becomes false again, and it is false
\* whenever no call is in flight: nothing leaves it stuck at true.
C23_ExportSettles ==
    /\ <>[](\A c \in Calls : ~InFlight(c))
    /\ isExporting ~> ~isExporting
    /\ []((\A c \in Calls : ~InFlight(c)) => ~isExporting)

\* Two exports have set isExporting and have settled, one with its blob and
\* one with a failure, and isExporting is false again.
C23_Witness ==
    /\ ~isExporting
    /\ \E c, d \in Calls :
          /\ calls[c].pc = "done" /\ calls[c].result.isBlob
          /\ calls[d].pc = "done" /\ ~calls[d].err.ok

----------------------------------------------------------------------------
(* Properties of the invitation subsystem                                  *)

\* The request is not yet made or has been answered.
AtRest(r) == requests[r].pc \in {"idle", "done", "failed"}

\* The rows and the mails request r has made.
RowsOf(r, rows) == {row \in rows : row.by = r}

\* C24: under any interleaving of sendInvitation requests of one inviter
\* the stored invitationQuota stays >= 0, and the invitations created are
\* never more than the quota the inviter started with.
C24_QuotaNeverNegative ==
    /\ invitationQuota >= 0
    /\ Cardinality(invitations) <= startQuota

\* C25: creating the invitation and decrementing the quota are all or
\* nothing: whenever no request is in flight, the quota the inviter started
\* with minus the stored quota is the number of invitations created.
C25_AllOrNothing ==
    (\A r \in Requests : AtRest(r))
        => startQuota - invitationQuota = Cardinality(invitations)

\* C26: when the invitation mail fails, the request fails and has consumed
\* nothing: it leaves no invitation of its own, and a request made alone
\* leaves the quota and the invitations as they were before it.
C26_MailFailureConsumesNothing ==
    [][\A r \in Requests :
          (requests[r].pc = "mail" /\ requests'[r].pc = "failed")
              => /\ RowsOf(r, invitations') = {}
                 /\ (\A q \in Requests \ {r} : requests[q].pc = "idle")
                        => /\ invitationQuota' = startQuota
                           /\ invitations' = {}]_vars

ValidationErrors ==
    {"Email is required", "Message must be 500 characters or less",
     "No invitation quota remaining"}

\* The body of request r fails the validation, or its user has no quota.
Rejectable(r) ==
    \/ Falsy(requests[r].email)
    \/ MessageTooLong(requests[r].message)
    \/ requests[r].user.invitationQuota <= 0

\* C27: a request without email, with a message of more than 500
\* characters, or of an inviter whose quota is <= 0 is rejected with the
\* matching error, creates no invitation and sends no mail, and the step
\* that rejects it leaves quota, invitations and mails unchanged.
C27_RejectedRequestChangesNothing ==
    /\ [](\A r \in Requests :
            /\ (requests[r].pc # "idle" /\ Rejectable(r))
                  => /\ requests[r].pc = "failed"
                     /\ requests[r].error \in ValidationErrors
            /\ (requests[r].pc = "failed" /\ requests[r].error \in ValidationErrors)
                  => /\ Rejectable(r)
                     /\ RowsOf(r, invitations) = {}
                     /\ RowsOf(r, mails) = {})
    /\ [][\A r \in Requests :
            (requests[r].pc = "idle" /\ requests'[r].pc = "failed")
                => /\ invitationQuota' = invitationQuota
                   /\ invitations' = invitations
                   /\ mails' = mails]_vars

\* One request was rejected for its message and one for the quota, which an
\* earlier request, answered with success, had used up.
C27_Witness ==
    \E r, q, p \in Requests :
        /\ requests[r].pc = "failed"
        /\ requests[r].error = "Message must be 500 characters or less"
        /\ requests[q].pc = "failed"
        /\ requests[q].error = "No invitation quota remaining"
        /\ requests[q].user.invitationQuota = 0
        /\ requests[p].pc = "done"
        /\ startQuota = 1

----------------------------------------------------------------------------
(* Properties of the admin login                                           *)

\* getMe of call c succeeded and returned a user with isAdmin = true.
VerifiedAdmin(c) ==
    logins[c].me.ok /\ logins[c].me.hasData /\ logins[c].me.isAdmin = "true"

\* C28: once verifyToken has finished, the token it stored is in
\* localStorage only if its getMe succeeded with isAdmin = true; a call
\* that ends with a non-admin user or with an error leaves localStorage
\* without a token at that moment and has not navigated, and /users is
\* shown only after some call has verified an admin.
C28_TokenOnlyForVerifiedAdmin ==
    /\ [](\A c \in Logins :
            logins[c].pc = "done"
                => /\ (token.by = c => VerifiedAdmin(c))
                   /\ (~VerifiedAdmin(c) => ~logins[c].navigated))
    /\ [](location = "/users"
            => \E c \in Logins : logins[c].pc = "done" /\ VerifiedAdmin(c))
    /\ [][\A c \in Logins :
            (logins[c].pc # "done" /\ logins'[c].pc = "done" /\ ~VerifiedAdmin(c)')
                => token' = NoToken /\ location' = location]_vars

\* One call stored a token and was turned away as no admin, the other one
\* verified an admin, whose token is the one in localStorage.
C28_Witness ==
    \E c, d \in Logins :
        /\ logins[c].pc = "done" /\ logins[c].stored
        /\ logins[c].me.ok /\ logins[c].me.isAdmin = "false"
        /\ logins[d].pc = "done" /\ VerifiedAdmin(d)
        /\ token.by = d
        /\ location = "/users"

----------------------------------------------------------------------------
(* Properties of the editor page                                           *)

\* handleUpload of call c ends on this step.
UploadEnds(c) == uploads[c].pc \notin {"none", "done"} /\ uploads'[c].pc = "done"

\* C29: handleUpload uploads only a generated PDF: every file handed to
\* uploadApi.uploadPresentation is made of the blob its exportPdf call
\* returned; when exportPdf returns null, 'Failed to generate PDF' becomes
\* the error, the dialog and the route stay as they are and nothing is
\* uploaded; and isUploading is false whenever a handleUpload ends.
C29_UploadsOnlyGeneratedPdf ==
    /\ [](\A j \in 1..Len(uploadLog) :
            LET call == calls[uploadLog[j].call]
            IN  /\ call.pc = "done"
                /\ call.result.isBlob
                /\ Len(call.result.pages) >= 1
                /\ uploadLog[j].file.parts = call.result.pages)
    /\ [][\A c \in Calls :
            (UploadEnds(c) /\ calls[c].pc = "done" /\ ~calls[c].result.isBlob)
                => /\ uploadError' = "Failed to generate PDF"
                   /\ showUploadDialog' = showUploadDialog
                   /\ route' = route
                   /\ uploadLog' = uploadLog]_vars
    /\ [][\A c \in Calls : UploadEnds(c) => ~isUploading']_vars

\* A first handleUpload uploaded its PDF and the upload failed; a second
\* one got null from exportPdf: its error is shown, the dialog is open, the
\* editor page is still shown.
C29_Witness ==
    \E c, d \in Calls :
        /\ uploads[c].pc = "done" /\ calls[c].result.isBlob
        /\ \E j \in 1..Len(uploadLog) : uploadLog[j].call = c
        /\ uploads[d].pc = "done" /\ calls[d].pc = "done" /\ ~calls[d].result.isBlob
        /\ uploadError = "Failed to generate PDF"
        /\ showUploadDialog
        /\ ~isUploading
        /\ route = "/presentations/new"

----------------------------------------------------------------------------
(* Properties of MarkdownEditor                                            *)

\* C30: MarkdownEditor never echoes a programmatic update to its owner:
\* the step that replaces the document with the value prop invokes no
\* onChange, every document change of the user invokes onChange once with
\* the new text, so onChange has been invoked exactly once per change of
\* the user and an owner that feeds onChange back into value gets no
\* further change from it.
C30_NoEchoOfExternalUpdate ==
    /\ [](Len(onChangeLog) = userEdits /\ ~isExternalUpdate)
    /\ [][(valueEffectPending /\ ~valueEffectPending')
              => /\ onChangeLog' = onChangeLog
                 /\ ownerText' = ownerText
                 /\ doc' = DocOf(value)]_vars
    /\ [][(userEdits' # userEdits)
              => /\ doc' # doc
                 /\ onChangeLog' = Append(onChangeLog, doc')
                 /\ ownerText' = doc']_vars

\* The user has changed the document, the owner has rendered with what
\* onChange gave it, the effect has found document and value equal; before
\* that the editor had replaced its document by a text the owner loaded.
C30_Witness ==
    /\ userEdits = 2
    /\ Len(onChangeLog) = 2
    /\ value = onChangeLog[2]
    /\ doc = value
    /\ ~valueEffectPending
    /\ ownerText = value
    /\ \E k \in 1..Len(doc) : doc[k] = "b"

====
